---- MODULE Spec2Model ----
(***************************************************************************)
(* Model of the food_scanner backend: the local store (Food,               *)
(* NutritionProfile, ScanHistory), the primary-promotion rule of           *)
(* NutritionProfile.save, the barcode and free-text resolvers with their   *)
(* write-backs, and the scan_analyze request handler.                      *)
(*                                                                         *)
(* Strings are sequences of one-character strings, so that the case        *)
(* folding, containment and splitting the code performs are computed.      *)
(* An optional (nullable) value is a sequence of length 0 (None) or 1.     *)
(* A float is an exact rational <<numerator, denominator>> in lowest terms.*)
(***************************************************************************)
EXTENDS Integers, Sequences, FiniteSets, TLC

\* ------------------------------------------------------------------ bounds

\* The store holds at most MaxFoods Food rows and MaxProfiles NutritionProfile rows.
MaxFoods == 2

MaxProfiles == 3

\* At most MaxScans analyze requests are started.
MaxScans == 2

\* ----------------------------------------------------------------- strings

UpperAlpha == <<"A","B","C","D","E","F","G","H","I","J","K","L","M",
                "N","O","P","Q","R","S","T","U","V","W","X","Y","Z">>

LowerAlpha == <<"a","b","c","d","e","f","g","h","i","j","k","l","m",
                "n","o","p","q","r","s","t","u","v","w","x","y","z">>

Digits == <<"0","1","2","3","4","5","6","7","8","9">>

None == <<>>

Some(x) == <<x>>

\* str.lower() on the letters A-Z
LowerTable ==
    [c \in {UpperAlpha[i] : i \in 1..26} |->
        LowerAlpha[CHOOSE i \in 1..26 : UpperAlpha[i] = c]]

\* str.lower() on one character
LowerChar(c) == IF c \in DOMAIN LowerTable THEN LowerTable[c] ELSE c

\* str.lower()
Lower(s) == [i \in 1..Len(s) |-> LowerChar(s[i])]

\* needle in hay (Python), LIKE %needle% (the store)
Contains(hay, needle) ==
    \E i \in 1..(Len(hay) - Len(needle) + 1) :
        SubSeq(hay, i, i + Len(needle) - 1) = needle

\* hay.startswith(prefix)
StartsWith(hay, prefix) ==
    /\ Len(prefix) <= Len(hay)
    /\ SubSeq(hay, 1, Len(prefix)) = prefix

\* name__iexact
IExact(a, b) == Lower(a) = Lower(b)

\* name__icontains
IContains(hay, needle) == Contains(Lower(hay), Lower(needle))

IsSpace(c) == c = " "

IsDigit(c) == \E i \in 1..10 : Digits[i] = c

RECURSIVE LStrip(_)
LStrip(s) == IF s # <<>> /\ IsSpace(Head(s)) THEN LStrip(Tail(s)) ELSE s

RECURSIVE RStrip(_)
RStrip(s) ==
    IF s # <<>> /\ IsSpace(s[Len(s)]) THEN RStrip(SubSeq(s, 1, Len(s) - 1)) ELSE s

\* str.strip()
Strip(s) == RStrip(LStrip(s))

\* str.replace(word, ''), word non-empty: every occurrence, left to right
RECURSIVE RemoveAll(_, _)
RemoveAll(s, word) ==
    IF s = <<>> THEN <<>>
    ELSE IF StartsWith(s, word) THEN RemoveAll(SubSeq(s, Len(word) + 1, Len(s)), word)
    ELSE <<Head(s)>> \o RemoveAll(Tail(s), word)

\* str.split(): the whitespace-separated words, as a sequence of strings
RECURSIVE SplitWords(_, _)
SplitWords(s, cur) ==
    IF s = <<>> THEN (IF cur = <<>> THEN <<>> ELSE <<cur>>)
    ELSE IF IsSpace(Head(s))
         THEN (IF cur = <<>> THEN <<>> ELSE <<cur>>) \o SplitWords(Tail(s), <<>>)
         ELSE SplitWords(Tail(s), Append(cur, Head(s)))

\* s.split(sep)[0], sep one character
RECURSIVE BeforeFirst(_, _)
BeforeFirst(s, sep) ==
    IF s = <<>> \/ Head(s) = sep THEN <<>>
    ELSE <<Head(s)>> \o BeforeFirst(Tail(s), sep)

\* ''.join(filter(str.isdigit, s))
RECURSIVE FilterDigits(_)
FilterDigits(s) ==
    IF s = <<>> THEN <<>>
    ELSE (IF IsDigit(Head(s)) THEN <<Head(s)>> ELSE <<>>) \o FilterDigits(Tail(s))

DigitValue(c) == (CHOOSE i \in 1..10 : Digits[i] = c) - 1

\* the value of a non-empty digit string
RECURSIVE DigitsToNat(_)
DigitsToNat(s) ==
    IF s = <<>> THEN 0
    ELSE DigitsToNat(SubSeq(s, 1, Len(s) - 1)) * 10 + DigitValue(s[Len(s)])

\* the store's ORDER BY name: code-point order, a prefix first
CharOrder == <<" ","0","1","2","3","4","5","6","7","8","9">> \o UpperAlpha \o LowerAlpha

CharRankTable ==
    [c \in {CharOrder[i] : i \in 1..Len(CharOrder)} |->
        CHOOSE i \in 1..Len(CharOrder) : CharOrder[i] = c]

CharRank(c) == IF c \in DOMAIN CharRankTable THEN CharRankTable[c] ELSE 0

RECURSIVE StrLess(_, _)
StrLess(a, b) ==
    IF b = <<>> THEN FALSE
    ELSE IF a = <<>> THEN TRUE
    ELSE IF Head(a) = Head(b) THEN StrLess(Tail(a), Tail(b))
    ELSE CharRank(Head(a)) < CharRank(Head(b))

\* ---------------------------------------------------------------- rationals

RECURSIVE Gcd(_, _)
Gcd(a, b) == IF b = 0 THEN a ELSE Gcd(b, a % b)

\* n / d for n >= 0, d > 0
Rat(n, d) == LET g == Gcd(n, d) IN <<n \div g, d \div g>>

RatMul(x, y) == Rat(x[1] * y[1], x[2] * y[2])

RatOfInt(n) == <<n, 1>>

\* ------------------------------------------------------------------- state

VARIABLES
    foods,      \* Food rows: a sequence, the primary key is the index
    profiles,   \* NutritionProfile rows: a sequence, the primary key is the index
    scans,      \* ScanHistory rows: a sequence, the primary key is the index
    req,        \* the scan_analyze request in flight and its position
    requests,   \* how many analyze requests passed validation
    last,       \* what the last resolution (lookup_barcode / get_food_by_name) did
    savers,     \* the concurrent NutritionProfile.save() calls and their positions
    calc        \* a service function under evaluation: its argument and its result

vars == <<foods, profiles, scans, req, requests, last, savers, calc>>

\* NutritionSource names
SrcLocal == "Local Database"

SrcOff == "Open Food Facts"

SrcLlm == "LLM Generated"

\* (self.calories / self.serving_size_grams) * 100
CaloriesPer100g(calories, grams) == Rat(calories[1] * 100, calories[2] * grams)

\* Food.primary_nutrition: nutrition_profiles.filter(is_primary=True); the
\* set of primary keys, of which .first() returns one
PrimaryKeys(ps, food) ==
    {i \in 1..Len(ps) : ps[i].food = food /\ ps[i].is_primary}

ProfileKeys(ps, food) == {i \in 1..Len(ps) : ps[i].food = food}

\* NutritionProfile.Meta.ordering ('-is_primary', '-confidence_score',
\* '-created_at'): the rows .first() may return among keys
FirstProfileKeys(ps, keys) ==
    {i \in keys : \A j \in keys :
        \/ (ps[i].is_primary /\ ~ps[j].is_primary)
        \/ /\ ps[i].is_primary = ps[j].is_primary
           /\ ps[i].confidence[1] * ps[j].confidence[2]
                >= ps[j].confidence[1] * ps[i].confidence[2]}

\* save(): objects.filter(food=self.food, is_primary=True).exclude(pk=self.pk)
\*         .update(is_primary=False)
DemoteOthersSkipped(ps, food, pk) == ps

DemoteOthers(ps, food, pk) ==
    [i \in 1..Len(ps) |->
        IF ps[i].food = food /\ ps[i].is_primary /\ i # pk
        THEN [ps[i] EXCEPT !.is_primary = FALSE]
        ELSE ps[i]]

\* save(): self.food.calories_per_100g = ...; self.food.save(update_fields=[...])
UpdateFoodQuickAccess(fs, food, rec) ==
    [fs EXCEPT ![food].calories_per_100g =
        Some(CaloriesPer100g(rec.calories, rec.serving_size_grams))]

\* save(): super().save(): INSERT when pk is new, UPDATE otherwise
WriteProfile(ps, pk, rec) ==
    IF pk = Len(ps) + 1 THEN Append(ps, rec) ELSE [ps EXCEPT ![pk] = rec]

\* NutritionProfile.save() as one uninterrupted call
ProfileSave(fs, ps, pk, rec) ==
    LET ps1 == IF rec.is_primary THEN DemoteOthers(ps, rec.food, pk) ELSE ps
        fs1 == IF rec.is_primary THEN UpdateFoodQuickAccess(fs, rec.food, rec) ELSE fs
    IN  [foods |-> fs1, profiles |-> WriteProfile(ps1, pk, rec)]

NewFood(name, description, barcode, cal100, nutri, origin) ==
    [name |-> name, description |-> description, barcode |-> barcode,
     calories_per_100g |-> cal100, nutri_score |-> nutri,
     glycemic_load_index |-> None, created_by |-> origin]

NewProfile(food, source, grams, calories, primary, confidence, metaNutri, metaGl) ==
    [food |-> food, source |-> source, serving_size_grams |-> grams,
     calories |-> calories, protein_g |-> RatOfInt(0),
     carbohydrates_g |-> RatOfInt(0), fat_g |-> RatOfInt(0),
     fiber_g |-> None, sodium_mg |-> None,
     is_primary |-> primary, confidence |-> confidence,
     meta_nutri_score |-> metaNutri, meta_glycemic_load |-> metaGl,
     columns |-> {}, vitamins_minerals |-> {}, source_metadata |-> {}]

\* Food.Meta.ordering = ['name']: the rows .first() may return among ids (rows
\* of equal name come in an order the store does not fix)
FirstFood(fs, ids) ==
    {i \in ids : \A j \in ids : ~StrLess(fs[j].name, fs[i].name)}

\* ------------------------------------------------- barcode_scanner.py

BarcodeA == <<"1","2","3","4","5","6","7","8">>

BarcodeB == <<"9","9","9">>

Barcodes == {BarcodeA, BarcodeB}

OffUnknownProduct == <<"U","n","k","n","o","w","n"," ","P","r","o","d","u","c","t">>

OffProductName == <<"C","h","o","c","o"," ","B","a","r">>

\* What requests.get(...) and response.json() give for one call: the call
\* raises (unreachable, timeout), answers a non-200 status, a body json()
\* cannot parse or whose fields have the wrong type (malformed), a body
\* without a product (absent), or a product.
OffFailureKinds == {"unreachable", "timeout", "http_error", "malformed"}

OffResponses ==
    [kind : OffFailureKinds \cup {"absent"}, name : {<<>>}, energy : {None}, grade : {""}]
    \cup [kind : {"product"}, name : {OffProductName},
          energy : {None, Some(RatOfInt(250))}, grade : {"B"}]

\* the resolvers' answer, with the tiers it called in call order
Answer(found, source, foodId, foodName, barcode, embedded, error, raised, calls) ==
    [found |-> found, source |-> source, food_id |-> foodId, food_name |-> foodName,
     barcode_id |-> barcode, embedded |-> embedded, error |-> error,
     raised |-> raised, calls |-> calls]

Call(tier, hit) == [tier |-> tier, hit |-> hit]

\* _lookup_local_database: Food.objects.filter(barcode=barcode_id).first()
LookupLocalDatabase(fs, b) ==
    LET ids == {i \in 1..Len(fs) : fs[i].barcode = Some(b)}
    IN  IF ids # {}
        THEN LET f == CHOOSE i \in ids : TRUE
             IN  [found |-> TRUE, food_name |-> fs[f].name, source |-> "local_database"]
        ELSE [found |-> FALSE, food_name |-> <<>>, source |-> ""]

\* _lookup_open_food_facts, the body of its try: exc when a statement raises
OffTryBody(b, resp) ==
    IF resp.kind \in {"unreachable", "timeout", "malformed"}
    THEN [exc |-> TRUE, found |-> FALSE, food_name |-> <<>>]
    ELSE IF resp.kind = "product"
    THEN [exc |-> FALSE, found |-> TRUE,
          food_name |-> IF resp.name # <<>> THEN resp.name ELSE OffUnknownProduct]
    ELSE [exc |-> FALSE, found |-> FALSE, food_name |-> <<>>]

\* _lookup_open_food_facts without its except clauses
LookupOpenFoodFactsUncaught(b, resp) == OffTryBody(b, resp)

\* _lookup_open_food_facts: both except clauses return {'found': False}
LookupOpenFoodFacts(b, resp) ==
    LET r == OffTryBody(b, resp)
    IN  IF r.exc THEN [exc |-> FALSE, found |-> FALSE, food_name |-> <<>>] ELSE r

\* _save_to_local_database without the Food.objects.create
SaveToLocalDatabaseSkipped(fs, ps, b, name, resp) == [foods |-> fs, profiles |-> ps]

\* _save_to_local_database: nothing when the barcode is stored; else the Food
\* row, and the NutritionProfile row (through save()) when energy_kcal is truthy
SaveToLocalDatabase(fs, ps, b, name, resp) ==
    IF \E i \in 1..Len(fs) : fs[i].barcode = Some(b)
    THEN [foods |-> fs, profiles |-> ps]
    ELSE LET food == NewFood(name, <<>>, Some(b), resp.energy,
                             Some(resp.grade), "off_writeback")
             fs1 == Append(fs, food)
         IN  IF resp.energy # None /\ resp.energy[1][1] # 0
             THEN ProfileSave(fs1, ps, Len(ps) + 1,
                      NewProfile(Len(fs1), SrcOff, 100, resp.energy[1], TRUE,
                                 Rat(8, 10), None, None))
             ELSE [foods |-> fs1, profiles |-> ps]

NotFoundBarcode(b, source, calls) ==
    Answer(FALSE, source, None, None, Some(b), None, FALSE, FALSE, calls)

\* lookup_barcode: the local store, then Open Food Facts with its write-back
LookupBarcode(fs, ps, b, resp) ==
    LET local == LookupLocalDatabase(fs, b)
        off == LookupOpenFoodFacts(b, resp)
    IN  IF local.found
        THEN [foods |-> fs, profiles |-> ps,
              res |-> Answer(TRUE, "local_database", None, Some(local.food_name),
                             Some(b), None, FALSE, FALSE, <<Call("local", TRUE)>>)]
        ELSE IF off.exc
        THEN [foods |-> fs, profiles |-> ps,
              res |-> NotFoundBarcode(b, "error",
                          <<Call("local", FALSE), Call("external", FALSE)>>)]
        ELSE IF off.found
        THEN LET st == SaveToLocalDatabase(fs, ps, b, off.food_name, resp)
             IN  [foods |-> st.foods, profiles |-> st.profiles,
                  res |-> Answer(TRUE, "open_food_facts", None, Some(off.food_name),
                                 Some(b), None, FALSE, FALSE,
                                 <<Call("local", FALSE), Call("external", TRUE)>>)]
        ELSE [foods |-> fs, profiles |-> ps,
              res |-> NotFoundBarcode(b, "not_found",
                          <<Call("local", FALSE), Call("external", FALSE)>>)]

\* ------------------------------------------------- nutrition_analyzer.py

NameApple == <<"a","p","p","l","e">>

NameApples == <<"A","p","p","l","e","s">>

NameRawApple == <<"r","a","w"," ","a","p","p","l","e">>

NameSeedApple == <<"A","p","p","l","e">>

NameMalus == <<"M","a","l","u","s">>

\* the names a request asks for
ReqNames == {NameApple, NameApples, NameRawApple}

CommonWords == <<<<"f","r","e","s","h">>, <<"o","r","g","a","n","i","c">>, <<"r","a","w">>, <<"c","o","o","k","e","d">>, <<"g","r","i","l","l","e","d">>, <<"f","r","i","e","d">>, <<"b","a","k","e","d">>>>

AutoDescriptionPrefix == <<"A","u","t","o","-","g","e","n","e","r","a","t","e","d"," ","f","r","o","m"," ","L","L","M"," ","f","o","r"," ">>

\* _generate_name_variations: list(set(variations)), a set whose iteration
\* order the interpreter does not fix
GenerateNameVariations(foodName) ==
    LET nameLower == Lower(foodName)
        stripped == {Strip(RemoveAll(nameLower, CommonWords[k])) :
                        k \in {j \in 1..Len(CommonWords) : Contains(nameLower, CommonWords[j])}}
        plural == IF nameLower # <<>> /\ nameLower[Len(nameLower)] = "s"
                  THEN {SubSeq(nameLower, 1, Len(nameLower) - 1)}
                  ELSE {nameLower \o <<"s">>}
        words == IF Contains(nameLower, <<" ">>)
                 THEN LET w == SplitWords(nameLower, <<>>) IN {w[k] : k \in 1..Len(w)}
                 ELSE {}
    IN  stripped \cup plural \cup words

ExactIds(fs, n) == {i \in 1..Len(fs) : IExact(fs[i].name, n)}

SubstringIds(fs, n) == {i \in 1..Len(fs) : IContains(fs[i].name, n)}

VariantIds(fs, v) ==
    {i \in 1..Len(fs) : IContains(fs[i].name, v) \/ IContains(fs[i].description, v)}

\* _find_food_in_database: the (food, tiers tried) pairs it may return; food is
\* None when every local match missed
FindFoodInDatabase(fs, n) ==
    LET exact == ExactIds(fs, n)
        sub == SubstringIds(fs, n)
        hitting == {v \in GenerateNameVariations(n) : VariantIds(fs, v) # {}}
    IN  IF exact # {}
        THEN {[food |-> Some(f), calls |-> <<Call("exact", TRUE)>>] : f \in FirstFood(fs, exact)}
        ELSE IF sub # {}
        THEN {[food |-> Some(f),
               calls |-> <<Call("exact", FALSE), Call("substring", TRUE)>>] :
                 f \in FirstFood(fs, sub)}
        ELSE IF hitting # {}
        THEN {[food |-> Some(f),
               calls |-> <<Call("exact", FALSE), Call("substring", FALSE),
                           Call("variant", TRUE)>>] :
                 f \in UNION {FirstFood(fs, VariantIds(fs, v)) : v \in hitting}}
        ELSE {[food |-> None,
               calls |-> <<Call("exact", FALSE), Call("substring", FALSE),
                           Call("variant", FALSE)>>]}

\* A JSON value as the provider sends it: a number (neg: below zero, v its
\* magnitude), a string that is no number, or null
RawNum(n, d) == [t |-> "num", neg |-> FALSE, v |-> Rat(n, d)]

RawNeg(n, d) == [t |-> "num", neg |-> TRUE, v |-> Rat(n, d)]

RawStr == [t |-> "str", neg |-> FALSE, v |-> RatOfInt(0)]

RawNull == [t |-> "null", neg |-> FALSE, v |-> RatOfInt(0)]

\* What llm_service.model.generate_content(prompt) and json.loads give for one
\* call: no model configured (unavailable), the call raises, text json.loads
\* rejects (unparsable), an empty object, or an object (data) with these keys
LlmFailureKinds == {"unavailable", "raises", "unparsable"}

LlmNoData ==
    [food_name |-> None, description |-> None, calories |-> None,
     protein_g |-> None, carbohydrates_g |-> None, fat_g |-> None,
     fiber_g |-> None, sodium_mg |-> None, confidence |-> None,
     nutri_score |-> None, glycemic_load |-> None, allergens_ok |-> TRUE,
     others |-> {}]

LlmResponses ==
    {[kind |-> k, data |-> LlmNoData] : k \in LlmFailureKinds \cup {"empty"}}
    \cup {[kind |-> "data", data |-> d] : d \in
            [food_name : {None, Some(NameMalus)}, description : {None},
             calories : {Some(RawNum(95, 1))},
             protein_g : {None}, carbohydrates_g : {None}, fat_g : {None},
             fiber_g : {None}, sodium_mg : {None},
             confidence : {None, Some(RawNum(3, 2)), Some(RawStr)},
             nutri_score : {None, Some("a")},
             glycemic_load : {None},
             allergens_ok : BOOLEAN, others : {{}}]}

\* float(value): exc for a string that is no number and for None
ToFloat(raw) == [exc |-> raw.t # "num", neg |-> raw.neg, v |-> raw.v]

RatLess(x, y) == x[1] * y[2] < y[1] * x[2]

\* llm_service.generate_nutrition_data, lines 398-403: result[field] =
\* float(result[field]), 0.0 when that raises
CoerceNumericField(opt) ==
    IF opt = None THEN None
    ELSE IF ToFloat(opt[1]).exc THEN Some(RawNum(0, 1)) ELSE opt

\* generate_nutrition_data: {'error': ...} when the model is missing or any
\* statement of the try raises; otherwise the parsed object, 'confidence' and
\* 'glycemic_load' not being among its numeric_fields
GenerateNutritionData(resp) ==
    IF resp.kind \in LlmFailureKinds
    THEN [error |-> TRUE, empty |-> FALSE, data |-> LlmNoData]
    ELSE IF resp.kind = "empty"
    THEN [error |-> FALSE, empty |-> TRUE, data |-> LlmNoData]
    ELSE [error |-> FALSE, empty |-> FALSE,
          data |-> [resp.data EXCEPT
                      !.calories = CoerceNumericField(resp.data.calories),
                      !.protein_g = CoerceNumericField(resp.data.protein_g),
                      !.carbohydrates_g = CoerceNumericField(resp.data.carbohydrates_g),
                      !.fat_g = CoerceNumericField(resp.data.fat_g),
                      !.fiber_g = CoerceNumericField(resp.data.fiber_g),
                      !.sodium_mg = CoerceNumericField(resp.data.sodium_mg)]]

\* _get_nutrition_from_llm: success iff the result is non-empty without 'error'
GetNutritionFromLlm(resp) ==
    LET result == GenerateNutritionData(resp)
    IN  [success |-> ~result.empty /\ ~result.error, nutrition_data |-> result.data]

\* str.upper() on a one-letter grade
UpperGrade(g) ==
    IF \E i \in 1..26 : LowerAlpha[i] = g
    THEN UpperAlpha[CHOOSE i \in 1..26 : LowerAlpha[i] = g]
    ELSE g

\* sanitizer, line 269: min(0.8, max(0.1, float(data.get('confidence', 0.8))));
\* exc when float() raises
SanitizeConfidence(data) ==
    LET raw == IF data.confidence = None THEN RawNum(8, 10) ELSE data.confidence[1]
        f == ToFloat(raw)
        low == IF f.neg \/ RatLess(f.v, Rat(1, 10)) THEN Rat(1, 10) ELSE f.v
    IN  [exc |-> f.exc,
         value |-> IF RatLess(Rat(8, 10), low) THEN Rat(8, 10) ELSE low]

\* the core macro coercion without max(0.0, ...): a negative number is kept
SanitizeMacroSigned(opt) ==
    IF opt = None THEN RatOfInt(0)
    ELSE IF opt[1].t = "null" THEN RatOfInt(0)
    ELSE IF ToFloat(opt[1]).exc THEN RatOfInt(0)
    ELSE IF opt[1].neg THEN <<0 - opt[1].v[1], opt[1].v[2]>>
    ELSE opt[1].v

\* sanitizer, lines 283-293, a core macro: max(0.0, float(value)), 0.0 for None,
\* for a value float() rejects and for an absent key
SanitizeMacro(opt) ==
    IF opt = None THEN RatOfInt(0)
    ELSE IF opt[1].t = "null" THEN RatOfInt(0)
    ELSE IF ToFloat(opt[1]).exc THEN RatOfInt(0)
    ELSE IF opt[1].neg THEN RatOfInt(0)
    ELSE opt[1].v

\* sanitizer, lines 273-293, an optional direct field: coerced as a core macro
\* when its key is present, left unset (null) when it is absent
SanitizeOptional(opt) == IF opt = None THEN None ELSE Some(SanitizeMacro(opt))

\* sanitizer, lines 315-320: the grade in upper case when it is one of A-E, else 'C'
SanitizeNutriScore(opt) ==
    IF opt = None THEN None
    ELSE IF UpperGrade(opt[1]) \in {"A", "B", "C", "D", "E"}
    THEN Some(UpperGrade(opt[1]))
    ELSE Some("C")

\* sanitizer, lines 321-327: float(value) clamped to [0, 100]; 50.0 for None
\* and for a value float() rejects
SanitizeGlycemic(opt) ==
    IF opt = None THEN None
    ELSE IF opt[1].t # "num" THEN Some(RatOfInt(50))
    ELSE IF opt[1].neg THEN Some(RatOfInt(0))
    ELSE IF RatLess(RatOfInt(100), opt[1].v) THEN Some(RatOfInt(100))
    ELSE Some(opt[1].v)

\* the keys of the modelled fields of a provider object
ModelledKeys ==
    {"food_name", "description", "calories", "protein_g", "carbohydrates_g",
     "fat_g", "fiber_g", "sodium_mg", "confidence", "nutri_score", "glycemic_load"}

\* the keys present in nutrition_data
PresentKeys(data) ==
    {k \in ModelledKeys : data[k] # None} \cup data.others

\* _create_sanitized_nutrition_profile, lines 224-236
ValidDirectFields ==
    {"serving_size", "calories", "protein_g", "carbohydrates_g", "fat_g",
     "fiber_g", "sugar_g", "sodium_mg", "cholesterol_mg", "saturated_fat_g",
     "trans_fat_g"}

\* lines 239-252
VitaminMineralFields ==
    {"potassium_mg", "vitamin_c_mg", "calcium_mg", "iron_mg", "vitamin_a_iu",
     "vitamin_d_iu", "vitamin_e_mg", "vitamin_k_mcg", "folate_mcg",
     "magnesium_mg", "phosphorus_mg", "zinc_mg"}

\* lines 255-262
MetadataFields ==
    {"nutri_score", "glycemic_index", "glycemic_load", "allergens", "food_type",
     "category"}

\* lines 274-295: the columns sanitized_data names, those present and the
\* defaults of the missing required ones
SanitizedColumns(data) ==
    (PresentKeys(data) \cap ValidDirectFields)
    \cup {"calories", "protein_g", "carbohydrates_g", "fat_g", "serving_size"}

\* lines 298-306: the keys of vitamins_minerals
SanitizedVitaminsMinerals(data) == PresentKeys(data) \cap VitaminMineralFields

\* the sanitizer leaving source_metadata empty
SanitizedSourceMetadataDropped(data) == {}

\* lines 311-330: the keys of source_metadata
SanitizedSourceMetadata(data) == PresentKeys(data) \cap MetadataFields

\* _create_sanitized_nutrition_profile: raises before any write when the
\* confidence cannot be coerced; else NutritionProfile.objects.create(...)
\* with is_primary=True and the model's default serving_size_grams
CreateSanitizedNutritionProfile(fs, ps, food, data) ==
    LET conf == SanitizeConfidence(data)
    IN  IF conf.exc
        THEN [exc |-> TRUE, foods |-> fs, profiles |-> ps]
        ELSE LET st == ProfileSave(fs, ps, Len(ps) + 1,
                           [NewProfile(food, SrcLlm, 100, SanitizeMacro(data.calories),
                                       TRUE, conf.value,
                                       SanitizeNutriScore(data.nutri_score),
                                       SanitizeGlycemic(data.glycemic_load))
                              EXCEPT !.protein_g = SanitizeMacro(data.protein_g),
                                     !.carbohydrates_g = SanitizeMacro(data.carbohydrates_g),
                                     !.fat_g = SanitizeMacro(data.fat_g),
                                     !.fiber_g = SanitizeOptional(data.fiber_g),
                                     !.sodium_mg = SanitizeOptional(data.sodium_mg),
                                     !.columns = SanitizedColumns(data),
                                     !.vitamins_minerals = SanitizedVitaminsMinerals(data),
                                     !.source_metadata = SanitizedSourceMetadata(data)])
             IN  [exc |-> FALSE, foods |-> st.foods, profiles |-> st.profiles]

LlmFoodName(n, data) == IF data.food_name = None THEN n ELSE data.food_name[1]

\* _save_llm_food_to_database, lines 187-193: the Food row it creates
SaveLlmFoodRow(n, data) ==
    NewFood(LlmFoodName(n, data),
            IF data.description = None THEN AutoDescriptionPrefix \o n
            ELSE data.description[1],
            None, None, None, "llm_writeback")

\* _save_llm_food_to_database: Food.objects.create, then the sanitized profile;
\* an exception of the second leaves the first in the store and returns None
SaveLlmFoodToDatabase(fs, ps, n, data) ==
    LET fs1 == Append(fs, SaveLlmFoodRow(n, data))
        san == CreateSanitizedNutritionProfile(fs1, ps, Len(fs1), data)
    IN  IF san.exc
        THEN [saved |-> None, foods |-> fs1, profiles |-> ps]
        ELSE [saved |-> Some(Len(fs1)), foods |-> san.foods, profiles |-> san.profiles]

\* _format_database_food_response
FormatDatabaseFoodResponse(fs, f, source, calls) ==
    Answer(TRUE, source, Some(f), Some(fs[f].name), fs[f].barcode, None,
           FALSE, FALSE, calls)

\* get_food_by_name asking the provider before the local store
GetFoodByNameLlmFirst(fs, ps, n, resp) ==
    LET llm == GetNutritionFromLlm(resp)
    IN  IF llm.success
        THEN {[foods |-> fs, profiles |-> ps,
               res |-> Answer(TRUE, "LLM (Not Saved)", None, Some(n), None,
                              Some(llm.nutrition_data), FALSE, FALSE,
                              <<Call("llm", TRUE)>>)]}
        ELSE {[foods |-> fs, profiles |-> ps,
               res |-> IF fr.food # None
                       THEN FormatDatabaseFoodResponse(fs, fr.food[1], "Database",
                                <<Call("llm", FALSE)>> \o fr.calls)
                       ELSE Answer(FALSE, "Not Found", None, Some(n), None, None,
                                   FALSE, FALSE, <<Call("llm", FALSE)>> \o fr.calls)] :
                fr \in FindFoodInDatabase(fs, n)}

\* get_food_by_name: the local matches, then the provider with its write-back;
\* the except of line 64 turns an exception of _format_llm_response into
\* {'found': False, 'error': ...}
GetFoodByName(fs, ps, n, resp) ==
    LET llm == GetNutritionFromLlm(resp)
        sv == SaveLlmFoodToDatabase(fs, ps, n, llm.nutrition_data)
        Miss(fr) ==
            LET calls == fr.calls \o <<Call("llm", llm.success)>>
            IN  IF ~llm.success
                THEN [foods |-> fs, profiles |-> ps,
                      res |-> Answer(FALSE, "Not Found", None, Some(n), None, None,
                                     FALSE, FALSE, calls)]
                ELSE IF sv.saved # None
                THEN [foods |-> sv.foods, profiles |-> sv.profiles,
                      res |-> FormatDatabaseFoodResponse(sv.foods, sv.saved[1], "LLM", calls)]
                ELSE IF ~llm.nutrition_data.allergens_ok
                THEN [foods |-> sv.foods, profiles |-> sv.profiles,
                      res |-> Answer(FALSE, "", None, Some(n), None, None,
                                     TRUE, FALSE, calls)]
                ELSE [foods |-> sv.foods, profiles |-> sv.profiles,
                      res |-> Answer(TRUE, "LLM (Not Saved)", None,
                                     Some(LlmFoodName(n, llm.nutrition_data)), None,
                                     Some(llm.nutrition_data), FALSE, FALSE, calls)]
    IN  {IF fr.food # None
         THEN [foods |-> fs, profiles |-> ps,
               res |-> FormatDatabaseFoodResponse(fs, fr.food[1], "Database", fr.calls)]
         ELSE Miss(fr) : fr \in FindFoodInDatabase(fs, n)}

\* _parse_serving_size: the conversions table, in the order the dict is written
Conversions == <<[size |-> <<"1"," ","c","u","p">>, grams |-> 240],
                 [size |-> <<"1","/","2"," ","c","u","p">>, grams |-> 120],
                 [size |-> <<"1"," ","t","b","s","p">>, grams |-> 15],
                 [size |-> <<"1"," ","t","s","p">>, grams |-> 5],
                 [size |-> <<"1"," ","s","l","i","c","e">>, grams |-> 30],
                 [size |-> <<"1"," ","p","i","e","c","e">>, grams |-> 50],
                 [size |-> <<"1"," ","m","e","d","i","u","m">>, grams |-> 150],
                 [size |-> <<"1"," ","l","a","r","g","e">>, grams |-> 200],
                 [size |-> <<"1"," ","s","m","a","l","l">>, grams |-> 100]>>

Serving50g == <<"5","0","g">>

ServingCup == <<"1"," ","c","u","p">>

Servings == {Serving50g, ServingCup}

\* _parse_serving_size: with a 'g' in the string, the digits before the first
\* 'g' (float('') raises and is passed over); else the first table phrase the
\* string contains; else 100.0
ParseServingSize(servingSize) ==
    LET s == Strip(Lower(servingSize))
        digits == FilterDigits(BeforeFirst(s, "g"))
        hits == {k \in 1..Len(Conversions) : Contains(s, Conversions[k].size)}
    IN  IF Contains(s, <<"g">>) /\ digits # <<>>
        THEN RatOfInt(DigitsToNat(digits))
        ELSE IF hits # {}
        THEN RatOfInt(Conversions[CHOOSE k \in hits : \A j \in hits : k <= j].grams)
        ELSE RatOfInt(100)

\* _get_default_nutrition(serving_size)
GetDefaultNutrition(servingSize) ==
    [calories |-> RatOfInt(200), protein_g |-> RatOfInt(10),
     carbohydrates_g |-> RatOfInt(20), fat_g |-> RatOfInt(10),
     fiber_g |-> None, sodium_mg |-> None,
     serving_size_grams |-> ParseServingSize(servingSize)]

\* _format_nutrition_data, lines 640-642: value * multiplier if value else None;
\* the condition is the truth value of the stored number, false for None and 0.0
ScaleOptional(opt, multiplier) ==
    IF opt = None THEN None
    ELSE IF opt[1][1] = 0 THEN None
    ELSE Some(RatMul(opt[1], multiplier))

\* _format_nutrition_data taking every stored record as a 100 g baseline
FormatNutritionDataPer100(profile, servingSize) ==
    LET servingGrams == ParseServingSize(servingSize)
        multiplier == RatMul(servingGrams, Rat(1, 100))
    IN  [calories |-> RatMul(profile.calories, multiplier),
         protein_g |-> RatMul(profile.protein_g, multiplier),
         carbohydrates_g |-> RatMul(profile.carbohydrates_g, multiplier),
         fat_g |-> RatMul(profile.fat_g, multiplier),
         fiber_g |-> ScaleOptional(profile.fiber_g, multiplier),
         sodium_mg |-> ScaleOptional(profile.sodium_mg, multiplier),
         serving_size_grams |-> servingGrams]

\* _format_nutrition_data: every nutrient times serving_grams /
\* serving_size_grams; the default nutrition when the division raises
FormatNutritionData(profile, servingSize) ==
    IF profile.serving_size_grams = 0
    THEN GetDefaultNutrition(servingSize)
    ELSE LET servingGrams == ParseServingSize(servingSize)
             multiplier == RatMul(servingGrams, Rat(1, profile.serving_size_grams))
         IN  [calories |-> RatMul(profile.calories, multiplier),
              protein_g |-> RatMul(profile.protein_g, multiplier),
              carbohydrates_g |-> RatMul(profile.carbohydrates_g, multiplier),
              fat_g |-> RatMul(profile.fat_g, multiplier),
              fiber_g |-> ScaleOptional(profile.fiber_g, multiplier),
              sodium_mg |-> ScaleOptional(profile.sodium_mg, multiplier),
              serving_size_grams |-> servingGrams]

\* What llm_service.estimate_nutrition gives estimate_nutrition_by_name: it
\* raises or answers {'error'} (fails), or an object with or without 'calories'
EstResponses ==
    {[kind |-> "fails", calories |-> None],
     [kind |-> "ok", calories |-> None],
     [kind |-> "ok", calories |-> Some(RatOfInt(123))]}

\* estimate_nutrition_by_name: the provider's object, or _get_fallback_nutrition
EstimateNutritionByName(est) ==
    IF est.kind = "fails"
    THEN [kind |-> "fallback", calories |-> Some(RatOfInt(200))]
    ELSE [kind |-> "estimate", calories |-> est.calories]

\* get_nutrition_data: the embedded provider data, else by food_id the primary
\* profile or the first profile, else the estimate
GetNutritionData(fs, ps, res, servingSize, est) ==
    IF res.embedded # None
    THEN {[kind |-> "embedded",
           calories |-> IF res.embedded[1].calories = None THEN Some(RatOfInt(0))
                        ELSE Some(res.embedded[1].calories[1].v)]}
    ELSE IF res.food_id # None /\ PrimaryKeys(ps, res.food_id[1]) # {}
    THEN {[kind |-> "primary",
           calories |-> Some(FormatNutritionData(ps[k], servingSize).calories)] :
             k \in FirstProfileKeys(ps, PrimaryKeys(ps, res.food_id[1]))}
    ELSE IF res.food_id # None /\ ProfileKeys(ps, res.food_id[1]) # {}
    THEN {[kind |-> "first_profile",
           calories |-> Some(FormatNutritionData(ps[k], servingSize).calories)] :
             k \in FirstProfileKeys(ps, ProfileKeys(ps, res.food_id[1]))}
    ELSE {EstimateNutritionByName(est)}

\* ------------------------------------------------- health_analyzer.py

\* n / d for any integer n and d > 0, in lowest terms
RatSigned(n, d) == LET g == Gcd(IF n < 0 THEN 0 - n ELSE n, d) IN <<n \div g, d \div g>>

RatAdd(x, y) == RatSigned(x[1] * y[2] + y[1] * x[2], x[2] * y[2])

RatSub(x, y) == RatSigned(x[1] * y[2] - y[1] * x[2], x[2] * y[2])

\* x / y for y > 0
RatDiv(x, y) == RatSigned(x[1] * y[2], x[2] * y[1])

\* max(lo, min(hi, x))
Clamp(lo, hi, x) == IF RatLess(hi, x) THEN hi ELSE IF RatLess(x, lo) THEN lo ELSE x

KeySodium == <<"s","o","d","i","u","m","_","m","g">>

KeyFiber == <<"f","i","b","e","r","_","g">>

KeyTransFat == <<"t","r","a","n","s","_","f","a","t","_","g">>

PrefixMax == <<"m","a","x","_">>

PrefixMin == <<"m","i","n","_">>

NameHypertension == <<"H","y","p","e","r","t","e","n","s","i","o","n">>

NameHeartDisease == <<"H","e","a","r","t"," ","D","i","s","e","a","s","e">>

NameDiabetes == <<"D","i","a","b","e","t","e","s">>

\* dict.get(key): None for an absent key as for a null value
DictGet(d, key) == IF key \in DOMAIN d THEN d[key] ELSE RawNull

\* dict.get(key, default)
DictGetDefault(d, key, default) == IF key \in DOMAIN d THEN d[key] ELSE default

\* the HealthCondition rows: the name and dietary_restrictions in the order of
\* its items(); nutritional_targets is read by no comparison
HealthConditions ==
    <<[name |-> NameHypertension,
       dietary_restrictions |-> <<[key |-> PrefixMax \o KeySodium, limit |-> RawNum(1500, 1)]>>],
      [name |-> NameHeartDisease,
       dietary_restrictions |-> <<[key |-> PrefixMax \o KeyTransFat, limit |-> RawNum(0, 1)],
                                  [key |-> PrefixMax \o KeySodium, limit |-> RawNum(1500, 1)]>>],
      [name |-> NameDiabetes,
       dietary_restrictions |-> <<[key |-> PrefixMin \o KeyFiber, limit |-> RawNum(8, 1)],
                                  [key |-> PrefixMax \o KeySodium, limit |-> RawNum(2300, 1)],
                                  [key |-> PrefixMax \o KeyTransFat, limit |-> RawNum(2, 5)],
                                  [key |-> <<"a","v","o","i","d","_","i","n","g","r","e","d","i","e","n","t","s">>, limit |-> RawStr]>>]>>

\* _get_severity_level: exc when actual_value / limit_value divides by zero
GetSeverityLevel(actual, limit, limitType) ==
    IF limit[1] = 0 THEN [exc |-> TRUE, severity |-> "none"]
    ELSE LET ratio == RatDiv(actual, limit)
         IN  [exc |-> FALSE,
              severity |->
                IF limitType = "max"
                THEN (IF RatLess(RatOfInt(2), ratio) THEN "danger"
                      ELSE IF RatLess(Rat(3, 2), ratio) THEN "warning" ELSE "info")
                ELSE (IF RatLess(ratio, Rat(1, 2)) THEN "danger"
                      ELSE IF RatLess(ratio, Rat(3, 4)) THEN "warning" ELSE "info")]

\* every severity costs the same
GetScorePenaltyFlat(severity) == RatOfInt(1)

\* _get_score_penalty
GetScorePenalty(severity) ==
    IF severity = "info" THEN Rat(1, 2)
    ELSE IF severity = "warning" THEN Rat(3, 2)
    ELSE IF severity = "danger" THEN RatOfInt(3)
    ELSE RatOfInt(1)

\* nutrient.replace('max_', '').replace('min_', '')
NutrientOf(key) == RemoveAll(RemoveAll(key, PrefixMax), PrefixMin)

Remark(condition, severity, kind, entry) ==
    [condition |-> condition, severity |-> severity, kind |-> kind, entry |-> entry]

\* _analyze_single_condition, lines 80-104, one pass of the loop over
\* restrictions.items(): exc when a comparison or the ratio raises
CheckRestriction(nutritionData, cname, entry, acc) ==
    LET value == DictGet(nutritionData, NutrientOf(entry.key))
        limitType == IF StartsWith(entry.key, PrefixMax) THEN "max"
                     ELSE IF StartsWith(entry.key, PrefixMin) THEN "min" ELSE "none"
    IN  IF acc.exc \/ value.t = "null" \/ limitType = "none" THEN acc
        ELSE IF value.t # "num" \/ entry.limit.t # "num" THEN [acc EXCEPT !.exc = TRUE]
        ELSE IF (limitType = "max" /\ RatLess(entry.limit.v, value.v))
                \/ (limitType = "min" /\ RatLess(value.v, entry.limit.v))
        THEN LET sev == GetSeverityLevel(value.v, entry.limit.v, limitType)
             IN  IF sev.exc THEN [acc EXCEPT !.exc = TRUE]
                 ELSE [exc |-> FALSE,
                       remarks |-> Append(acc.remarks,
                                          Remark(cname, sev.severity, limitType, entry.key)),
                       score |-> RatSub(acc.score, GetScorePenalty(sev.severity))]
        ELSE acc

RECURSIVE CheckRestrictions(_, _, _, _, _)
CheckRestrictions(nutritionData, cname, entries, i, acc) ==
    IF i > Len(entries) THEN acc
    ELSE CheckRestrictions(nutritionData, cname, entries, i + 1,
                           CheckRestriction(nutritionData, cname, entries[i], acc))

\* _analyze_single_condition with an except clause that raises again
AnalyzeSingleConditionUncaught(nutritionData, condition) ==
    LET acc == CheckRestrictions(nutritionData, condition.name,
                                 condition.dietary_restrictions, 1,
                                 [exc |-> FALSE, remarks |-> <<>>, score |-> RatOfInt(7)])
    IN  [exc |-> acc.exc, fallback |-> FALSE, remarks |-> acc.remarks,
         score |-> Clamp(RatOfInt(0), RatOfInt(10), acc.score)]

\* _analyze_single_condition: the remarks and the clamped score; the fallback
\* remark and 5.0 when anything in the try raises; it raises nothing itself
AnalyzeSingleCondition(nutritionData, condition) ==
    LET acc == CheckRestrictions(nutritionData, condition.name,
                                 condition.dietary_restrictions, 1,
                                 [exc |-> FALSE, remarks |-> <<>>, score |-> RatOfInt(7)])
    IN  IF acc.exc
        THEN [exc |-> FALSE, fallback |-> TRUE,
              remarks |-> <<Remark(condition.name, "info", "unable", <<>>)>>,
              score |-> RatOfInt(5)]
        ELSE [exc |-> FALSE, fallback |-> FALSE,
              remarks |-> IF RatLess(acc.score, RatOfInt(7)) THEN acc.remarks
                          ELSE Append(acc.remarks,
                                      Remark(condition.name, "info", "suitable", <<>>)),
              score |-> Clamp(RatOfInt(0), RatOfInt(10), acc.score)]

\* HealthCondition.objects.filter(Q(name__iexact=...) | Q(name__icontains=...))
HealthConditionKeys(store, conditionName) ==
    {i \in 1..Len(store) : IExact(store[i].name, conditionName)
                           \/ IContains(store[i].name, conditionName)}

\* _get_health_condition answering the first stored row for a name that
\* matches none
GetHealthConditionDefaulting(cache, store, conditionName) ==
    LET keys == HealthConditionKeys(store, conditionName)
        k == IF keys = {} THEN 1
             ELSE CHOOSE i \in keys : \A j \in keys \ {i} : StrLess(store[i].name, store[j].name)
    IN  [condition |-> Some(store[k]), cache |-> cache]

\* _get_health_condition: the cached row of the name, else the first row by
\* name among those whose name equals or contains it, case-insensitively;
\* a row found is cached under the requested name
GetHealthCondition(cache, store, conditionName) ==
    IF conditionName \in DOMAIN cache
    THEN [condition |-> Some(cache[conditionName]), cache |-> cache]
    ELSE LET keys == HealthConditionKeys(store, conditionName)
         IN  IF keys = {} THEN [condition |-> None, cache |-> cache]
             ELSE LET k == CHOOSE i \in keys :
                               \A j \in keys \ {i} : StrLess(store[i].name, store[j].name)
                  IN  [condition |-> Some(store[k]),
                       cache |-> [n \in DOMAIN cache \cup {conditionName} |->
                                    IF n = conditionName THEN store[k] ELSE cache[n]]]

\* condition_scores[condition_name] = score on a dict kept as a sequence of
\* items in insertion order
DictSet(items, key, value) ==
    IF \E i \in 1..Len(items) : items[i].key = key
    THEN [i \in 1..Len(items) |-> IF items[i].key = key
                                  THEN [key |-> key, value |-> value] ELSE items[i]]
    ELSE Append(items, [key |-> key, value |-> value])

RECURSIVE SumValues(_)
SumValues(items) ==
    IF items = <<>> THEN RatOfInt(0)
    ELSE RatAdd(items[1].value, SumValues(Tail(items)))

\* _calculate_overall_score: exc when fiber_g or sodium_mg is present and is
\* no number (None > 5 raises TypeError)
CalculateOverallScore(conditionScores, nutritionData) ==
    IF conditionScores = <<>> THEN [exc |-> FALSE, score |-> RatOfInt(7)]
    ELSE LET avg == RatDiv(SumValues(conditionScores), RatOfInt(Len(conditionScores)))
             fiber == DictGetDefault(nutritionData, KeyFiber, RawNum(0, 1))
             sodium == DictGetDefault(nutritionData, KeySodium, RawNum(0, 1))
         IN  IF fiber.t # "num" \/ sodium.t # "num"
             THEN [exc |-> TRUE, score |-> RatOfInt(0)]
             ELSE LET a1 == IF RatLess(RatOfInt(5), fiber.v)
                            THEN RatAdd(avg, Rat(1, 2)) ELSE avg
                      a2 == IF RatLess(RatOfInt(2300), sodium.v)
                            THEN RatSub(a1, Rat(1, 2)) ELSE a1
                  IN  [exc |-> FALSE, score |-> Clamp(RatOfInt(0), RatOfInt(10), a2)]

\* analyze_for_conditions, lines 43-50: the loop over health_conditions
RECURSIVE AnalyzeEach(_, _, _, _, _)
AnalyzeEach(nutritionData, store, names, i, acc) ==
    IF i > Len(names) \/ acc.exc THEN acc
    ELSE LET got == GetHealthCondition(acc.cache, store, names[i])
         IN  IF got.condition = None
             THEN AnalyzeEach(nutritionData, store, names, i + 1, acc)
             ELSE LET analysis == AnalyzeSingleCondition(nutritionData, got.condition[1])
                  IN  AnalyzeEach(nutritionData, store, names, i + 1,
                          [exc |-> analysis.exc,
                           cache |-> got.cache,
                           remarks |-> acc.remarks \o analysis.remarks,
                           scores |-> DictSet(acc.scores, names[i], analysis.score)])

\* the answer of the outer except clause
AnalysisUnavailable(cache) ==
    [failed |-> TRUE, cache |-> cache,
     remarks |-> <<Remark(<<"s","y","s","t","e","m">>, "info", "system", <<>>)>>,
     overall_score |-> RatOfInt(5), condition_scores |-> <<>>]

\* the neutral score passed through the fiber and sodium adjustments
NoConditionsAdjusted(cache, nutritionData) ==
    LET overall == CalculateOverallScore(<<[key |-> <<>>, value |-> RatOfInt(7)]>>,
                                         nutritionData)
    IN  IF overall.exc THEN AnalysisUnavailable(cache)
        ELSE [failed |-> FALSE, cache |-> cache, remarks |-> <<>>,
              overall_score |-> overall.score, condition_scores |-> <<>>]

\* analyze_for_conditions, lines 33-38: the answer for an empty list
NoConditions(cache, nutritionData) ==
    [failed |-> FALSE, cache |-> cache, remarks |-> <<>>,
     overall_score |-> RatOfInt(7), condition_scores |-> <<>>]

\* analyze_for_conditions
AnalyzeForConditions(cache, store, nutritionData, healthConditions) ==
    IF healthConditions = <<>>
    THEN NoConditions(cache, nutritionData)
    ELSE LET acc == AnalyzeEach(nutritionData, store, healthConditions, 1,
                                [exc |-> FALSE, cache |-> cache, remarks |-> <<>>,
                                 scores |-> <<>>])
             overall == CalculateOverallScore(acc.scores, nutritionData)
         IN  IF acc.exc \/ overall.exc
             THEN AnalysisUnavailable(acc.cache)
             ELSE [failed |-> FALSE, cache |-> acc.cache, remarks |-> acc.remarks,
                   overall_score |-> overall.score, condition_scores |-> acc.scores]

\* ----------------------------------------------------------------- actions

\* what the model keeps of a resolver's answer
Seen(kind, key, res, ext) ==
    [kind |-> kind, key |-> key, found |-> res.found, source |-> res.source,
     error |-> res.error, raised |-> res.raised, calls |-> res.calls, ext |-> ext]

\* what the external call of a resolution gave, "none" when none was made
ExternalOutcome(res, resp) ==
    IF \E i \in 1..Len(res.calls) : res.calls[i].tier \in {"external", "llm"}
    THEN resp.kind
    ELSE "none"

NoAnswer == Answer(FALSE, "", None, None, None, None, FALSE, FALSE, <<>>)

IdleReq ==
    [pc |-> "idle", kind |-> "none", key |-> <<>>, serving |-> <<>>, scan |-> 0,
     result |-> None]

Procs == {1, 2}

IdleSaver == [pc |-> "idle", pk |-> 0, rec |-> None]

\* no service function is under evaluation
NoCalc == [op |-> "none", pc |-> "done", arg |-> <<>>, out |-> <<>>]

Init ==
    /\ foods = <<>>
    /\ profiles = <<>>
    /\ scans = <<>>
    /\ req = IdleReq
    /\ requests = 0
    /\ last = Seen("none", <<>>, NoAnswer, "none")
    /\ savers = [p \in Procs |-> IdleSaver]
    /\ calc = NoCalc

WithinBounds(fs, ps) == Len(fs) <= MaxFoods /\ Len(ps) <= MaxProfiles

\* populate_db, create_sample_foods: Food.objects.get_or_create(name='Apple'),
\* and its primary profile when the food was created
PopulateDb ==
    /\ req.pc = "idle"
    /\ ~\E i \in 1..Len(foods) : foods[i].name = NameSeedApple
    /\ LET fs1 == Append(foods, [NewFood(NameSeedApple, <<>>, None, Some(RatOfInt(52)),
                                         Some("A"), "populate_db")
                                   EXCEPT !.glycemic_load_index = Some(RatOfInt(6))])
           st == ProfileSave(fs1, profiles, Len(profiles) + 1,
                     [NewProfile(Len(fs1), SrcLocal, 100, RatOfInt(52), TRUE,
                                 Rat(95, 100), None, None)
                        EXCEPT !.protein_g = Rat(3, 10),
                               !.carbohydrates_g = RatOfInt(14),
                               !.fat_g = Rat(2, 10),
                               !.fiber_g = Some(Rat(24, 10))])
       IN  /\ WithinBounds(st.foods, st.profiles)
           /\ foods' = st.foods
           /\ profiles' = st.profiles
    /\ UNCHANGED <<scans, req, requests, last, savers, calc>>

SrcManual == "Manual Entry"

\* the values a caller of the model's save() gives a new profile
SaveCalories == {RatOfInt(200)}

SaveGrams == {50, 100}

\* the rows a save() may write: a new profile of a stored food, or a stored
\* profile with its primary flag set anew
SaveArguments(fs, ps) ==
    {[pk |-> Len(ps) + 1,
      rec |-> NewProfile(f, SrcManual, g, c, ip, RatOfInt(1), None, None)] :
        f \in {x \in 1..Len(fs) : Len(ps) < MaxProfiles},
        g \in SaveGrams, c \in SaveCalories, ip \in BOOLEAN}
    \cup {[pk |-> k, rec |-> [ps[k] EXCEPT !.is_primary = ip]] :
            k \in 1..Len(ps), ip \in BOOLEAN}

\* NutritionProfile.Meta.unique_together (food, source, serving_size): the store
\* refuses a second row of one food, source and serving size; a row's
\* serving_size is the text of its grams
UniqueTogether(ps, a) ==
    \A k \in 1..Len(ps) :
        k # a.pk =>
            ~(/\ ps[k].food = a.rec.food
              /\ ps[k].source = a.rec.source
              /\ ps[k].serving_size_grams = a.rec.serving_size_grams)

\* NutritionProfile.save() called on its own (admin, shell), uninterrupted
NutritionProfileSave ==
    /\ req.pc = "idle"
    /\ \E a \in SaveArguments(foods, profiles) :
        /\ UniqueTogether(profiles, a)
        /\ LET st == ProfileSave(foods, profiles, a.pk, a.rec)
           IN  /\ foods' = st.foods
               /\ profiles' = st.profiles
    /\ UNCHANGED <<scans, req, requests, last, savers, calc>>

\* what the external call of lookup_barcode(b) may give; the call is not made,
\* and its answer not drawn, when the local store holds the barcode
BarcodeResponses(b) ==
    IF LookupLocalDatabase(foods, b).found
    THEN {CHOOSE r \in OffResponses : r.kind = "absent"}
    ELSE OffResponses

\* what the provider call of get_food_by_name(n) may give; the call is not
\* made, and its answer not drawn, when every local search hits
NameResponses(n) ==
    IF \A fr \in FindFoodInDatabase(foods, n) : fr.food # None
    THEN {CHOOSE r \in LlmResponses : r.kind = "raises"}
    ELSE LlmResponses

\* lookup_barcode(b) against the store
ResolveByBarcode(b) ==
    \E resp \in BarcodeResponses(b) :
        LET out == LookupBarcode(foods, profiles, b, resp)
        IN  /\ WithinBounds(out.foods, out.profiles)
            /\ foods' = out.foods
            /\ profiles' = out.profiles
            /\ last' = Seen("barcode", b, out.res, ExternalOutcome(out.res, resp))
            /\ req' = IF req.pc = "idle" THEN req
                      ELSE [req EXCEPT !.pc = "resolved",
                                       !.result = IF out.res.found THEN Some(out.res)
                                                  ELSE None]

\* get_food_by_name(n) against the store
ResolveByName(n) ==
    \E resp \in NameResponses(n) :
        \E out \in GetFoodByName(foods, profiles, n, resp) :
            /\ WithinBounds(out.foods, out.profiles)
            /\ foods' = out.foods
            /\ profiles' = out.profiles
            /\ last' = Seen("name", n, out.res, ExternalOutcome(out.res, resp))
            /\ req' = IF req.pc = "idle" THEN req
                      ELSE [req EXCEPT !.pc = "resolved", !.result = Some(out.res)]

\* views.scan_barcode with a barcode_id: lookup_barcode
ScanBarcode ==
    /\ req.pc = "idle"
    /\ \E b \in Barcodes : ResolveByBarcode(b)
    /\ UNCHANGED <<scans, requests, savers, calc>>

\* NutritionAnalyzerService.get_food_by_name called on its own
FoodByName ==
    /\ req.pc = "idle"
    /\ \E n \in ReqNames : ResolveByName(n)
    /\ UNCHANGED <<scans, requests, savers, calc>>

ScanRow(status, saves) == [status |-> status, saves |-> saves]

\* scan_analyze, lines 212-226: ScanHistory.objects.create(status='processing')
OpenScan(rows) == Append(rows, ScanRow("processing", 0))

\* validate_barcode: the digits of the string number 8, 12, 13 or 14
ValidateBarcode(b) ==
    IF b = <<>> THEN FALSE ELSE Len(FilterDigits(b)) \in {8, 12, 13, 14}

\* ScanAnalyzeSerializer.validate: one of food_name, barcode_id, image is given
ScanAnalyzeValid(r) == r.kind \in {"text", "barcode", "image", "nutrition_label"}

\* scan_analyze is called: the request data, with one identifying input
\* (a name, a barcode, an image) or with none
ScanReceive ==
    /\ req.pc = "idle"
    /\ Len(scans) < MaxScans
    /\ \E kind \in {"text", "barcode", "image", "nutrition_label", "none"},
          serving \in Servings :
        \E key \in (CASE kind = "text" -> ReqNames
                      [] kind = "barcode" -> Barcodes
                      [] OTHER -> {<<>>}) :
            req' = [pc |-> "received", kind |-> kind, key |-> key, serving |-> serving,
                    scan |-> 0, result |-> None]
    /\ UNCHANGED <<foods, profiles, scans, requests, last, savers, calc>>

\* scan_analyze, lines 195-202: serializer.is_valid() fails, the 400 response
ScanReject ==
    /\ req.pc = "received"
    /\ ~ScanAnalyzeValid(req)
    /\ req' = IdleReq
    /\ UNCHANGED <<foods, profiles, scans, requests, last, savers, calc>>

\* scan_analyze, lines 195-226: a valid request opens its ScanHistory row
ScanStart ==
    /\ req.pc = "received"
    /\ ScanAnalyzeValid(req)
    /\ req' = [req EXCEPT !.pc = "started", !.scan = Len(scans) + 1]
    /\ scans' = OpenScan(scans)
    /\ requests' = requests + 1
    /\ UNCHANGED <<foods, profiles, last, savers, calc>>

\* the answer of extract_nutrition_from_label: no 'found', no 'food_name'
LabelAnswer == Answer(TRUE, "label", None, None, None, None, FALSE, FALSE, <<>>)

\* scan_analyze, lines 232-251: step 1, get or identify the food; an image is
\* resolved by the name identified in it, or by nothing when the
\* identification is not confident
ScanResolve ==
    /\ req.pc = "started"
    /\ \/ req.kind = "text" /\ ResolveByName(req.key)
       \/ req.kind = "barcode" /\ ResolveByBarcode(req.key)
       \/ /\ req.kind = "image"
          /\ \E n \in ReqNames : ResolveByName(n)
       \/ /\ req.kind = "image"
          /\ req' = [req EXCEPT !.pc = "resolved"]
          /\ UNCHANGED <<foods, profiles, last>>
       \/ /\ req.kind = "nutrition_label"
          /\ req' = [req EXCEPT !.pc = "resolved", !.result = Some(LabelAnswer)]
          /\ UNCHANGED <<foods, profiles, last>>
    /\ UNCHANGED <<scans, requests, savers, calc>>

\* scan_history.status = ...; scan_history.save(), the row left as it was
ScanSaveLost(rows, id, status) == rows

\* scan_history.status = ...; scan_history.save()
ScanSave(rows, id, status) ==
    [rows EXCEPT ![id] = ScanRow(status, rows[id].saves + 1)]

\* scan_analyze, lines 253-340, how the request ends for one food_result: not
\* found closes the row as failed; a KeyError building the response (no
\* 'food_name', no 'calories') reaches the except, which closes the row as
\* failed; else the row is closed as completed
ScanOutcomes(fs, ps, result, serving) ==
    IF result = None THEN {"failed"}
    ELSE IF ~result[1].found THEN {"failed"}
    ELSE {IF result[1].food_name = None \/ nd.calories = None
          THEN "failed" ELSE "completed" :
            nd \in UNION {GetNutritionData(fs, ps, result[1], serving, est) :
                            est \in EstResponses}}

ScanFinish ==
    /\ req.pc = "resolved"
    /\ \E status \in ScanOutcomes(foods, profiles, req.result, req.serving) :
        scans' = ScanSave(scans, req.scan, status)
    /\ req' = IdleReq
    /\ UNCHANGED <<foods, profiles, requests, last, savers, calc>>

\* The store under saves and barcode lookups, one call at a time
Next ==
    \/ PopulateDb
    \/ NutritionProfileSave
    \/ ScanBarcode

Spec == Init /\ [][Next]_vars

\* The store under name lookups, one call at a time
NextName ==
    \/ PopulateDb
    \/ FoodByName

SpecName == Init /\ [][NextName]_vars

\* The analyze requests, one at a time
NextScan ==
    \/ PopulateDb
    \/ ScanReceive
    \/ ScanReject
    \/ ScanStart
    \/ ScanResolve
    \/ ScanFinish

SpecScan == Init /\ [][NextScan]_vars

\* -------------------------------------------- NutritionProfile.save(), stepwise

\* The concurrent callers give a primary record: a new one (pk 0 until the
\* INSERT) or a stored one they promote
PromoteArguments(fs, ps, pending) ==
    {[pk |-> 0, rec |-> NewProfile(f, SrcManual, g, c, TRUE, RatOfInt(1), None, None)] :
        f \in {x \in 1..Len(fs) : Len(ps) + pending < MaxProfiles},
        g \in SaveGrams, c \in SaveCalories}
    \cup {[pk |-> k, rec |-> [ps[k] EXCEPT !.is_primary = TRUE]] : k \in 1..Len(ps)}

PendingInserts == Cardinality({p \in Procs : savers[p].pc # "idle" /\ savers[p].pk = 0})

\* a caller builds the instance and enters save()
SaveBegin(p) ==
    /\ savers[p].pc = "idle"
    /\ \E a \in PromoteArguments(foods, profiles, PendingInserts) :
        savers' = [savers EXCEPT ![p] = [pc |-> "demote", pk |-> a.pk, rec |-> Some(a.rec)]]
    /\ UNCHANGED <<foods, profiles, scans, req, requests, last, calc>>

\* save(), lines 127-132: the UPDATE demoting the other primaries, committed
\* on its own
SaveDemote(p) ==
    /\ savers[p].pc = "demote"
    /\ LET rec == savers[p].rec[1]
       IN  profiles' = IF rec.is_primary
                       THEN DemoteOthers(profiles, rec.food, savers[p].pk)
                       ELSE profiles
    /\ savers' = [savers EXCEPT ![p].pc = "food"]
    /\ UNCHANGED <<foods, scans, req, requests, last, calc>>

\* save(), lines 134-137: the food's calories_per_100g, committed on its own
SaveFood(p) ==
    /\ savers[p].pc = "food"
    /\ LET rec == savers[p].rec[1]
       IN  foods' = IF rec.is_primary
                    THEN UpdateFoodQuickAccess(foods, rec.food, rec)
                    ELSE foods
    /\ savers' = [savers EXCEPT ![p].pc = "write"]
    /\ UNCHANGED <<profiles, scans, req, requests, last, calc>>

\* save(), line 139: super().save(), the INSERT or UPDATE of the instance as
\* the caller holds it; the store refuses a row breaking unique_together
SaveWrite(p) ==
    /\ savers[p].pc = "write"
    /\ LET pk == IF savers[p].pk = 0 THEN Len(profiles) + 1 ELSE savers[p].pk
           rec == savers[p].rec[1]
       IN  profiles' = IF UniqueTogether(profiles, [pk |-> pk, rec |-> rec])
                       THEN WriteProfile(profiles, pk, rec)
                       ELSE profiles
    /\ savers' = [savers EXCEPT ![p] = IdleSaver]
    /\ UNCHANGED <<foods, scans, req, requests, last, calc>>

\* Two callers of save() on one store, statement by statement
NextConc ==
    \/ PopulateDb
    \/ \E p \in Procs : SaveBegin(p)
    \/ \E p \in Procs : SaveDemote(p)
    \/ \E p \in Procs : SaveFood(p)
    \/ \E p \in Procs : SaveWrite(p)

SpecConc == Init /\ [][NextConc]_vars

\* ---------------------------- _create_sanitized_nutrition_profile on any map

\* what a key of the untyped map may hold: nothing (absent), null, -5, a text
\* that is no number ("trace"), 3
SanitizerValues ==
    {None, Some(RawNull), Some(RawNeg(5, 1)), Some(RawStr), Some(RawNum(3, 1))}

\* the 'confidence' key: absent, null, a text, -1, 0.05, 0.5, 1.5
SanitizerConfidences ==
    {None, Some(RawNull), Some(RawStr), Some(RawNeg(1, 1)), Some(RawNum(5, 100)),
     Some(RawNum(1, 2)), Some(RawNum(3, 2))}

SanitizerInputs ==
    [food_name : {None}, description : {None},
     calories : SanitizerValues, protein_g : SanitizerValues,
     carbohydrates_g : {None, Some(RawNeg(5, 1)), Some(RawNum(3, 1))},
     fat_g : {None, Some(RawStr), Some(RawNum(3, 1))},
     fiber_g : SanitizerValues, sodium_mg : {None},
     confidence : SanitizerConfidences,
     nutri_score : {None}, glycemic_load : {None}, allergens_ok : {TRUE},
     others : {{}}]

\* further keys a provider's object may carry: a direct column, two listed
\* micronutrients, two listed descriptive fields, and two keys of no table
OtherKeys ==
    {"sugar_g", "potassium_mg", "vitamin_c_mg", "allergens", "category",
     "vitamin_b12_mcg", "ingredients"}

\* maps with any of the further keys beside calories and a quality grade
RoutingInputs ==
    [food_name : {None}, description : {None},
     calories : {Some(RawNum(3, 1))}, protein_g : {None, Some(RawNum(3, 1))},
     carbohydrates_g : {None}, fat_g : {None}, fiber_g : {None}, sodium_mg : {None},
     confidence : {None}, nutri_score : {None, Some("a")}, glycemic_load : {None},
     allergens_ok : {TRUE}, others : SUBSET OtherKeys]

\* the store when _save_llm_food_to_database calls the sanitizer: the Food row
\* it has just created, no profile yet
InitSanitize ==
    /\ foods = <<SaveLlmFoodRow(NameApple, LlmNoData)>>
    /\ profiles = <<>>
    /\ scans = <<>>
    /\ req = IdleReq
    /\ requests = 0
    /\ last = Seen("none", <<>>, NoAnswer, "none")
    /\ savers = [p \in Procs |-> IdleSaver]
    /\ \E d \in SanitizerInputs \cup RoutingInputs :
          calc = [op |-> "sanitize", pc |-> "input", arg |-> d, out |-> <<>>]

\* _create_sanitized_nutrition_profile(food, source, nutrition_data)
Sanitize ==
    /\ calc.op = "sanitize"
    /\ calc.pc = "input"
    /\ LET san == CreateSanitizedNutritionProfile(foods, profiles, 1, calc.arg)
       IN  /\ foods' = san.foods
           /\ profiles' = san.profiles
           /\ calc' = [calc EXCEPT !.pc = "done", !.out = [exc |-> san.exc]]
    /\ UNCHANGED <<scans, req, requests, last, savers>>

NextSanitize == Sanitize

SpecSanitize == InitSanitize /\ [][NextSanitize]_vars

\* --------------------------------- _parse_serving_size, _format_nutrition_data

ServingHeads == {<<>>, <<" ">>}

\* the table's phrases, one of them in upper case, numbers, a word, nothing
ServingMiddles ==
    {Conversions[k].size : k \in 1..Len(Conversions)}
    \cup {<<"1"," ","C","U","P">>, <<"2","5","0">>, <<"5","0">>, <<"0">>,
          <<"h","a","n","d","f","u","l">>, <<>>}

ServingTails == {<<>>, <<"g">>, <<" ","e","g","g">>, <<" ","(","3","0","g",")">>}

\* the free-text serving descriptions a caller passes
ServingTexts ==
    {h \o m \o t : h \in ServingHeads, m \in ServingMiddles, t \in ServingTails}

\* stored records: the seed's macros, fiber and sodium null, zero or positive
StoredGrams == {50, 100}

StoredProfiles ==
    {[NewProfile(1, SrcLocal, g, RatOfInt(200), TRUE, Rat(95, 100), None, None)
        EXCEPT !.protein_g = Rat(3, 10), !.carbohydrates_g = RatOfInt(14),
               !.fat_g = Rat(2, 10), !.fiber_g = fiber, !.sodium_mg = sodium] :
       g \in StoredGrams, fiber \in {None, Some(RatOfInt(0)), Some(Rat(24, 10))},
       sodium \in {None, Some(RatOfInt(74))}}

InitServing ==
    /\ foods = <<>>
    /\ profiles = <<>>
    /\ scans = <<>>
    /\ req = IdleReq
    /\ requests = 0
    /\ last = Seen("none", <<>>, NoAnswer, "none")
    /\ savers = [p \in Procs |-> IdleSaver]
    /\ \/ \E t \in ServingTexts :
             calc = [op |-> "parse", pc |-> "input", arg |-> [text |-> t], out |-> <<>>]
       \/ \E t \in ServingTexts, p \in StoredProfiles :
             calc = [op |-> "format", pc |-> "input",
                     arg |-> [text |-> t, profile |-> p], out |-> <<>>]
       \/ \E t \in ServingTexts, p \in StoredProfiles :
             calc = [op |-> "roundtrip", pc |-> "input",
                     arg |-> [text |-> t, profile |-> p], out |-> <<>>]

\* _parse_serving_size(serving_size)
ParseServing ==
    /\ calc.op = "parse"
    /\ calc.pc = "input"
    /\ calc' = [calc EXCEPT !.pc = "done", !.out = ParseServingSize(calc.arg.text)]
    /\ UNCHANGED <<foods, profiles, scans, req, requests, last, savers>>

\* _format_nutrition_data(nutrition_profile, serving_size)
FormatNutrition ==
    /\ calc.op = "format"
    /\ calc.pc = "input"
    /\ calc' = [calc EXCEPT !.pc = "done",
                            !.out = FormatNutritionData(calc.arg.profile, calc.arg.text)]
    /\ UNCHANGED <<foods, profiles, scans, req, requests, last, savers>>

\* NutritionProfile.serving_size of a stored record: the text of its grams
ServingSizeText(grams) ==
    IF grams = 50 THEN Serving50g ELSE <<"1","0","0","g">>

\* a formatted result taken as the baseline of a further scaling: its values
\* with serving_size_grams the grams they were scaled to
ResultAsProfile(profile, result) ==
    [profile EXCEPT !.serving_size_grams = result.serving_size_grams[1],
                    !.calories = result.calories, !.protein_g = result.protein_g,
                    !.carbohydrates_g = result.carbohydrates_g,
                    !.fat_g = result.fat_g, !.fiber_g = result.fiber_g,
                    !.sodium_mg = result.sodium_mg]

\* NutritionProfile.macros_per_100g: the four macros times 100 / serving grams
\* (the property raises ZeroDivisionError for a record of 0 grams)
MacrosPer100g(profile) ==
    IF profile.serving_size_grams = 0
    THEN [raised |-> TRUE, calories |-> RatOfInt(0), protein_g |-> RatOfInt(0),
          carbohydrates_g |-> RatOfInt(0), fat_g |-> RatOfInt(0)]
    ELSE LET multiplier == Rat(100, profile.serving_size_grams)
         IN  [raised |-> FALSE,
              calories |-> RatMul(profile.calories, multiplier),
              protein_g |-> RatMul(profile.protein_g, multiplier),
              carbohydrates_g |-> RatMul(profile.carbohydrates_g, multiplier),
              fat_g |-> RatMul(profile.fat_g, multiplier)]

\* _format_nutrition_data(nutrition_profile, serving_size), first leg of a
\* round trip
ScaleDown ==
    /\ calc.op = "roundtrip"
    /\ calc.pc = "input"
    /\ calc' = [calc EXCEPT !.pc = "scaled",
                            !.out = FormatNutritionData(calc.arg.profile, calc.arg.text)]
    /\ UNCHANGED <<foods, profiles, scans, req, requests, last, savers>>

\* the scaled values scaled again to the serving of the stored record, by
\* _format_nutrition_data and by macros_per_100g
ScaleBack ==
    /\ calc.op = "roundtrip"
    /\ calc.pc = "scaled"
    /\ LET scaled == ResultAsProfile(calc.arg.profile, calc.out)
           text == ServingSizeText(calc.arg.profile.serving_size_grams)
       IN  calc' = [calc EXCEPT !.pc = "done",
                                !.out = [scaled |-> calc.out,
                                         back |-> FormatNutritionData(scaled, text),
                                         per100 |-> MacrosPer100g(scaled)]]
    /\ UNCHANGED <<foods, profiles, scans, req, requests, last, savers>>

NextServing == ParseServing \/ FormatNutrition \/ ScaleDown \/ ScaleBack

SpecServing == InitServing /\ [][NextServing]_vars

\* ------------------------------------------ analyze_for_conditions on any input

MaxConditions == 2

\* the values of one key of nutrition_data: None for an absent key
SodiumValues ==
    {None, Some(RawNull), Some(RawStr), Some(RawNum(1000, 1)), Some(RawNum(2000, 1)),
     Some(RawNum(2400, 1)), Some(RawNum(3000, 1)), Some(RawNum(4000, 1))}

FiberValues ==
    {None, Some(RawNull), Some(RawNum(0, 1)), Some(RawNum(3, 1)), Some(RawNum(4, 1)),
     Some(RawNum(6, 1)), Some(RawNum(9, 1))}

TransFatValues == {None, Some(RawNum(0, 1)), Some(RawNum(1, 1))}

\* the dict of the keys that are present
NutritionDict(sodium, fiber, transFat) ==
    LET opts == (KeySodium :> sodium) @@ (KeyFiber :> fiber) @@ (KeyTransFat :> transFat)
    IN  [k \in {key \in DOMAIN opts : opts[key] # None} |-> opts[k][1]]

NutritionDicts ==
    {NutritionDict(s, f, t) : s \in SodiumValues, f \in FiberValues, t \in TransFatValues}

\* requested names: a stored name, part of one, one in another case, an unknown one
ConditionNames == {NameHypertension, <<"h","e","a","r","t">>, <<"d","i","a","b","e","t","e","s">>, <<"G","o","u","t">>}

RECURSIVE NameLists(_)
NameLists(n) ==
    IF n = 0 THEN {<<>>}
    ELSE NameLists(n - 1)
         \cup {Append(l, c) : l \in {x \in NameLists(n - 1) : Len(x) = n - 1},
                              c \in ConditionNames}

InitHealth ==
    /\ foods = <<>>
    /\ profiles = <<>>
    /\ scans = <<>>
    /\ req = IdleReq
    /\ requests = 0
    /\ last = Seen("none", <<>>, NoAnswer, "none")
    /\ savers = [p \in Procs |-> IdleSaver]
    /\ \/ \E nd \in NutritionDicts, c \in 1..Len(HealthConditions) :
             calc = [op |-> "condition", pc |-> "input",
                     arg |-> [nutrition_data |-> nd, condition |-> HealthConditions[c]],
                     out |-> <<>>]
       \/ \E nd \in NutritionDicts, names \in NameLists(MaxConditions) :
             calc = [op |-> "analyze", pc |-> "input",
                     arg |-> [nutrition_data |-> nd, health_conditions |-> names],
                     out |-> <<>>]

\* _analyze_single_condition(nutrition_data, condition)
AnalyzeCondition ==
    /\ calc.op = "condition"
    /\ calc.pc = "input"
    /\ calc' = [calc EXCEPT !.pc = "done",
                            !.out = AnalyzeSingleCondition(calc.arg.nutrition_data,
                                                           calc.arg.condition)]
    /\ UNCHANGED <<foods, profiles, scans, req, requests, last, savers>>

\* analyze_for_conditions(nutrition_data, health_conditions) on a service
\* instance whose cache is empty
Analyze ==
    /\ calc.op = "analyze"
    /\ calc.pc = "input"
    /\ calc' = [calc EXCEPT !.pc = "done",
                            !.out = AnalyzeForConditions(<<>>, HealthConditions,
                                                         calc.arg.nutrition_data,
                                                         calc.arg.health_conditions)]
    /\ UNCHANGED <<foods, profiles, scans, req, requests, last, savers>>

NextHealth == AnalyzeCondition \/ Analyze

SpecHealth == InitHealth /\ [][NextHealth]_vars

\* ----------------------- _analyze_single_condition on rules an editor stores

KeyVitaminC == <<"v","i","t","a","m","i","n","_","c","_","m","g">>

NameEdited == <<"C","u","s","t","o","m">>

\* dietary_restrictions entries of a HealthCondition row written through the
\* admin: a JSON object of any qualifier_nutrient keys
RuleEntries ==
    {[key |-> q \o n, limit |-> l] :
        q \in {PrefixMax, PrefixMin},
        n \in {KeySodium, KeyFiber, KeyVitaminC},
        l \in {RawNum(30, 1), RawNum(1500, 1)}}

\* rows of one entry, and of two entries with different keys
EditedConditions ==
    {[name |-> NameEdited, dietary_restrictions |-> <<e>>] : e \in RuleEntries}
    \cup {[name |-> NameEdited, dietary_restrictions |-> <<e1, e2>>] :
            e1 \in {e \in RuleEntries : NutrientOf(e.key) # KeyVitaminC /\ e.limit = RawNum(30, 1)},
            e2 \in {e \in RuleEntries : e.key = PrefixMax \o KeyVitaminC}}

VitaminCValues == {None, Some(RawNum(5, 1)), Some(RawNum(50, 1)), Some(RawNum(2000, 1))}

\* the dict of the keys that are present
RuleNutritionDict(sodium, fiber, vitaminC) ==
    LET opts == (KeySodium :> sodium) @@ (KeyFiber :> fiber) @@ (KeyVitaminC :> vitaminC)
    IN  [k \in {key \in DOMAIN opts : opts[key] # None} |-> opts[k][1]]

RuleNutritionDicts ==
    {RuleNutritionDict(s, f, v) :
        s \in {None, Some(RawNum(20, 1)), Some(RawNum(2000, 1))},
        f \in {None, Some(RawNum(3, 1))},
        v \in VitaminCValues}

InitRule ==
    /\ foods = <<>>
    /\ profiles = <<>>
    /\ scans = <<>>
    /\ req = IdleReq
    /\ requests = 0
    /\ last = Seen("none", <<>>, NoAnswer, "none")
    /\ savers = [p \in Procs |-> IdleSaver]
    /\ \E nd \in RuleNutritionDicts, c \in EditedConditions :
          calc = [op |-> "rule", pc |-> "input",
                  arg |-> [nutrition_data |-> nd, condition |-> c], out |-> <<>>]

\* _analyze_single_condition(nutrition_data, condition) for an edited row
EvaluateRule ==
    /\ calc.op = "rule"
    /\ calc.pc = "input"
    /\ calc' = [calc EXCEPT !.pc = "done",
                            !.out = AnalyzeSingleCondition(calc.arg.nutrition_data,
                                                           calc.arg.condition)]
    /\ UNCHANGED <<foods, profiles, scans, req, requests, last, savers>>

NextRule == EvaluateRule

SpecRule == InitRule /\ [][NextRule]_vars

\* ---------------- HealthAnalyzerService instances, their caches, rule edits

MaxInstances == 2

MaxEdits == 2

NameHypertensionLower == <<"h","y","p","e","r","t","e","n","s","i","o","n">>

\* the names asked of an instance: a stored name in two spellings
CachedNames == {NameHypertension, NameHypertensionLower}

\* the HealthCondition table after a number of edits of the Hypertension row:
\* each edit raises its max_sodium_mg by 500
ConditionStore(edits) ==
    [HealthConditions EXCEPT
        ![1].dietary_restrictions =
            <<[key |-> PrefixMax \o KeySodium, limit |-> RawNum(1500 + 500 * edits, 1)]>>]

\* the record every instance is asked about: sodium between the limit before
\* and after the first edit
CacheNutrition == RuleNutritionDict(Some(RawNum(1800, 1)), None, None)

\* self.condition_cache of a class whose instances share one dict
InstanceCacheShared(caches, i) == caches[1]

\* self.condition_cache of instance i, set by __init__
InstanceCache(caches, i) == caches[i]

InitCache ==
    /\ foods = <<>>
    /\ profiles = <<>>
    /\ scans = <<>>
    /\ req = IdleReq
    /\ requests = 0
    /\ last = Seen("none", <<>>, NoAnswer, "none")
    /\ savers = [p \in Procs |-> IdleSaver]
    /\ calc = [op |-> "cache", pc |-> "run",
               arg |-> [edits |-> 0, caches |-> <<>>, first |-> {}],
               out |-> <<>>]

\* scan_analyze, line 230: health_service = HealthAnalyzerService()
NewInstance ==
    /\ calc.op = "cache"
    /\ Len(calc.arg.caches) < MaxInstances
    /\ calc' = [calc EXCEPT !.arg.caches = Append(@, <<>>)]
    /\ UNCHANGED <<foods, profiles, scans, req, requests, last, savers>>

\* an editor saves the Hypertension row with another limit
EditRule ==
    /\ calc.op = "cache"
    /\ calc.arg.edits < MaxEdits
    /\ calc' = [calc EXCEPT !.arg.edits = @ + 1]
    /\ UNCHANGED <<foods, profiles, scans, req, requests, last, savers>>

\* one pass of the loop of analyze_for_conditions on instance i:
\* _get_health_condition(name), then _analyze_single_condition; first keeps,
\* for the record, the edit count at the instance's first hit of the name
EvaluateName(i, name) ==
    /\ calc.op = "cache"
    /\ LET got == GetHealthCondition(InstanceCache(calc.arg.caches, i),
                                     ConditionStore(calc.arg.edits), name)
           known == \E f \in calc.arg.first : f.instance = i /\ f.name = name
       IN  IF got.condition = None
           THEN calc' = [calc EXCEPT !.out = [instance |-> i, name |-> name,
                                              condition |-> None, score |-> None]]
           ELSE calc' = [calc EXCEPT
                           !.arg.caches[i] = got.cache,
                           !.arg.first = IF known THEN @
                                         ELSE @ \cup {[instance |-> i, name |-> name,
                                                       edits |-> calc.arg.edits]},
                           !.out = [instance |-> i, name |-> name,
                                    condition |-> got.condition,
                                    score |-> Some(AnalyzeSingleCondition(
                                                     CacheNutrition, got.condition[1]).score)]]
    /\ UNCHANGED <<foods, profiles, scans, req, requests, last, savers>>

NextCache ==
    \/ NewInstance
    \/ EditRule
    \/ \E i \in 1..Len(calc.arg.caches), name \in CachedNames : EvaluateName(i, name)

SpecCache == InitCache /\ [][NextCache]_vars

\* ------------------------------------ lookup_barcode, two callers, stepwise

\* a caller of lookup_barcode or get_food_by_name: its position, what the
\* external source gave it, the Food row it created, whether its INSERT was
\* refused, and its answer
IdleLookup == [pc |-> "idle", resp |-> None, food |-> 0, refused |-> FALSE, res |-> None]

\* a barcode's rows in the store
BarcodeIds(fs, b) == {i \in 1..Len(fs) : fs[i].barcode = Some(b)}

\* a store that takes a second row of one barcode
BarcodeUniqueUnenforced(fs, b) == TRUE

\* Food.barcode, unique=True: the store refuses a second row of a barcode
BarcodeUnique(fs, b) == BarcodeIds(fs, b) = {}

InitLookupConc ==
    /\ foods = <<>>
    /\ profiles = <<>>
    /\ scans = <<>>
    /\ req = IdleReq
    /\ requests = 0
    /\ last = Seen("none", <<>>, NoAnswer, "none")
    /\ savers = [p \in Procs |-> IdleLookup]
    /\ calc = NoCalc

\* lookup_barcode, lines 80-83: _lookup_local_database
BarcodeLocal(p) ==
    /\ savers[p].pc = "idle"
    /\ LET local == LookupLocalDatabase(foods, BarcodeA)
       IN  savers' = [savers EXCEPT ![p] =
              IF local.found
              THEN [@ EXCEPT !.pc = "done",
                             !.res = Some(Answer(TRUE, "local_database", None,
                                                 Some(local.food_name), Some(BarcodeA),
                                                 None, FALSE, FALSE,
                                                 <<Call("local", TRUE)>>))]
              ELSE [@ EXCEPT !.pc = "external"]]
    /\ UNCHANGED <<foods, profiles, scans, req, requests, last, calc>>

\* lines 85-87 and 92-98: _lookup_open_food_facts; not found ends the call
BarcodeExternal(p) ==
    /\ savers[p].pc = "external"
    /\ \E resp \in OffResponses :
          LET off == LookupOpenFoodFacts(BarcodeA, resp)
          IN  savers' = [savers EXCEPT ![p] =
                 IF off.found
                 THEN [@ EXCEPT !.pc = "check", !.resp = Some(resp)]
                 ELSE [@ EXCEPT !.pc = "done", !.resp = Some(resp),
                                !.res = Some(NotFoundBarcode(BarcodeA, "not_found",
                                            <<Call("local", FALSE),
                                              Call("external", FALSE)>>))]]
    /\ UNCHANGED <<foods, profiles, scans, req, requests, last, calc>>

\* the answer of a call whose external lookup hit, whatever the write-back did
ExternalAnswer(resp) ==
    Answer(TRUE, "open_food_facts", None,
           Some(LookupOpenFoodFacts(BarcodeA, resp).food_name), Some(BarcodeA),
           None, FALSE, FALSE, <<Call("local", FALSE), Call("external", TRUE)>>)

\* _save_to_local_database, lines 246-249: existing_food, return when stored
BarcodeCheck(p) ==
    /\ savers[p].pc = "check"
    /\ savers' = [savers EXCEPT ![p] =
          IF BarcodeIds(foods, BarcodeA) # {}
          THEN [@ EXCEPT !.pc = "done", !.res = Some(ExternalAnswer(savers[p].resp[1]))]
          ELSE [@ EXCEPT !.pc = "create"]]
    /\ UNCHANGED <<foods, profiles, scans, req, requests, last, calc>>

\* lines 251-262: Food.objects.create; a refused INSERT raises IntegrityError,
\* which the except of line 299 logs; without energy_kcal the call ends here
BarcodeCreateFood(p) ==
    /\ savers[p].pc = "create"
    /\ LET resp == savers[p].resp[1]
           name == LookupOpenFoodFacts(BarcodeA, resp).food_name
       IN  IF BarcodeUnique(foods, BarcodeA)
           THEN /\ foods' = Append(foods, NewFood(name, <<>>, Some(BarcodeA), resp.energy,
                                                  Some(resp.grade), "off_writeback"))
                /\ savers' = [savers EXCEPT ![p] =
                      IF resp.energy # None /\ resp.energy[1][1] # 0
                      THEN [@ EXCEPT !.pc = "profile", !.food = Len(foods) + 1]
                      ELSE [@ EXCEPT !.pc = "done", !.food = Len(foods) + 1,
                                     !.res = Some(ExternalAnswer(resp))]]
           ELSE /\ foods' = foods
                /\ savers' = [savers EXCEPT ![p] =
                      [@ EXCEPT !.pc = "done", !.refused = TRUE,
                                !.res = Some(ExternalAnswer(resp))]]
    /\ UNCHANGED <<profiles, scans, req, requests, last, calc>>

\* lines 264-294: NutritionProfile.objects.create for the row just created
BarcodeCreateProfile(p) ==
    /\ savers[p].pc = "profile"
    /\ LET resp == savers[p].resp[1]
           st == ProfileSave(foods, profiles, Len(profiles) + 1,
                     NewProfile(savers[p].food, SrcOff, 100, resp.energy[1], TRUE,
                                Rat(8, 10), None, None))
       IN  /\ foods' = st.foods
           /\ profiles' = st.profiles
    /\ savers' = [savers EXCEPT ![p] =
          [@ EXCEPT !.pc = "done", !.res = Some(ExternalAnswer(savers[p].resp[1]))]]
    /\ UNCHANGED <<scans, req, requests, last, calc>>

NextBarcodeConc ==
    \/ \E p \in Procs : BarcodeLocal(p)
    \/ \E p \in Procs : BarcodeExternal(p)
    \/ \E p \in Procs : BarcodeCheck(p)
    \/ \E p \in Procs : BarcodeCreateFood(p)
    \/ \E p \in Procs : BarcodeCreateProfile(p)

SpecBarcodeConc == InitLookupConc /\ [][NextBarcodeConc]_vars

\* ---------------------------------- get_food_by_name, two callers, stepwise

\* get_food_by_name, lines 33-38: _find_food_in_database, return when found
NameFind(p) ==
    /\ savers[p].pc = "idle"
    /\ \E fr \in FindFoodInDatabase(foods, NameApple) :
          savers' = [savers EXCEPT ![p] =
             IF fr.food # None
             THEN [@ EXCEPT !.pc = "done",
                            !.res = Some(FormatDatabaseFoodResponse(foods, fr.food[1],
                                                                    "Database", fr.calls))]
             ELSE [@ EXCEPT !.pc = "llm"]]
    /\ UNCHANGED <<foods, profiles, scans, req, requests, last, calc>>

\* lines 41-45 and 56-62: _get_nutrition_from_llm; no success ends the call
NameEstimate(p) ==
    /\ savers[p].pc = "llm"
    /\ \E resp \in LlmResponses :
          LET llm == GetNutritionFromLlm(resp)
          IN  savers' = [savers EXCEPT ![p] =
                 IF llm.success
                 THEN [@ EXCEPT !.pc = "save", !.resp = Some(llm.nutrition_data)]
                 ELSE [@ EXCEPT !.pc = "done",
                                !.res = Some(Answer(FALSE, "Not Found", None,
                                                    Some(NameApple), None, None,
                                                    FALSE, FALSE, <<Call("llm", FALSE)>>))]]
    /\ UNCHANGED <<foods, profiles, scans, req, requests, last, calc>>

\* lines 46-54: _save_llm_food_to_database and the answer
NameSave(p) ==
    /\ savers[p].pc = "save"
    /\ LET data == savers[p].resp[1]
           sv == SaveLlmFoodToDatabase(foods, profiles, NameApple, data)
       IN  /\ foods' = sv.foods
           /\ profiles' = sv.profiles
           /\ savers' = [savers EXCEPT ![p] =
                 [@ EXCEPT !.pc = "done", !.food = Len(sv.foods),
                    !.res = Some(IF sv.saved # None
                                 THEN FormatDatabaseFoodResponse(sv.foods, sv.saved[1], "LLM",
                                                                 <<Call("llm", TRUE)>>)
                                 ELSE Answer(data.allergens_ok, "LLM (Not Saved)", None,
                                             Some(LlmFoodName(NameApple, data)), None,
                                             Some(data), ~data.allergens_ok, FALSE,
                                             <<Call("llm", TRUE)>>))]]
    /\ UNCHANGED <<scans, req, requests, last, calc>>

NextNameConc ==
    \/ \E p \in Procs : NameFind(p)
    \/ \E p \in Procs : NameEstimate(p)
    \/ \E p \in Procs : NameSave(p)

SpecNameConc == InitLookupConc /\ [][NextNameConc]_vars

\* ------------------------ _get_health_condition on stores with further rows

\* rows an editor adds beside the seeded ones: names that contain a seeded name
AddedConditionNames ==
    {<<"C","o","n","g","e","n","i","t","a","l"," ">> \o NameHeartDisease,
     <<"T","y","p","e"," ","2"," ">> \o NameDiabetes,
     <<"P","u","l","m","o","n","a","r","y"," ">> \o NameHypertension}

AddedCondition(name) ==
    [name |-> name,
     dietary_restrictions |-> <<[key |-> PrefixMax \o KeySodium, limit |-> RawNum(1000, 1)]>>]

\* the HealthCondition table: the seeded rows, with none, one or two added rows
ConditionStores ==
    {HealthConditions}
    \cup {Append(HealthConditions, AddedCondition(a)) : a \in AddedConditionNames}
    \cup {HealthConditions \o <<AddedCondition(p[1]), AddedCondition(p[2])>> :
            p \in {q \in AddedConditionNames \X AddedConditionNames : q[1] # q[2]}}

\* the names a request gives: stored names as written and in lower case, a
\* part of a name, a name of no row
LookupNames ==
    LET stored == {NameHypertension, NameHeartDisease, NameDiabetes} \cup AddedConditionNames
    IN  stored \cup {Lower(n) : n \in stored}
        \cup {<<"h","e","a","r","t">>, <<"G","o","u","t">>}

InitConditionLookup ==
    /\ foods = <<>>
    /\ profiles = <<>>
    /\ scans = <<>>
    /\ req = IdleReq
    /\ requests = 0
    /\ last = Seen("none", <<>>, NoAnswer, "none")
    /\ savers = [p \in Procs |-> IdleSaver]
    /\ \E store \in ConditionStores, name \in LookupNames :
          calc = [op |-> "lookup", pc |-> "input",
                  arg |-> [store |-> store, name |-> name], out |-> <<>>]

\* _get_health_condition(condition_name) on an instance whose cache is empty
LookupCondition ==
    /\ calc.op = "lookup"
    /\ calc.pc = "input"
    /\ calc' = [calc EXCEPT !.pc = "done",
                            !.out = GetHealthCondition(<<>>, calc.arg.store, calc.arg.name)]
    /\ UNCHANGED <<foods, profiles, scans, req, requests, last, savers>>

NextConditionLookup == LookupCondition

SpecConditionLookup == InitConditionLookup /\ [][NextConditionLookup]_vars

\* ------------------------------------------------------------------ claims

\* C1 (as amended): after any sequence of NutritionRecord saves, with the
\* primary flag set or unset, through the model save or the barcode
\* write-back, every food in the store has at most one NutritionRecord marked
\* primary.
C1_AtMostOnePrimary ==
    \A f \in 1..Len(foods) : Cardinality(PrimaryKeys(profiles, f)) <= 1

\* C1, its case: a food whose older record lost the flag to a newer primary
C1_PromotionDemoted ==
    \E k1 \in 1..Len(profiles), k2 \in 1..Len(profiles) :
        /\ k1 < k2
        /\ profiles[k1].food = profiles[k2].food
        /\ profiles[k1].source \in {SrcLocal, SrcOff}
        /\ ~profiles[k1].is_primary
        /\ profiles[k2].is_primary

\* C1 as stated: every food in the store has exactly one NutritionRecord
\* marked primary.
C1_ExactlyOnePrimary ==
    \A f \in 1..Len(foods) : Cardinality(PrimaryKeys(profiles, f)) = 1

\* C2 as stated: while saves that promote a record interleave on a food that
\* has a primary, no store state shows that food with zero or with two
\* primary records.
C2_NoZeroOrTwoPrimaries ==
    \A f \in 1..Len(foods) :
        ProfileKeys(profiles, f) # {} => Cardinality(PrimaryKeys(profiles, f)) = 1

\* the tiers of a resolver, in priority order
TierOrder(kind) ==
    IF kind = "barcode" THEN <<"local", "external">>
    ELSE <<"exact", "substring", "variant", "llm">>

\* C3: within one resolution the tiers are tried strictly in priority order
\* from the first, each only after every earlier one missed: the external
\* reference DB only after the local barcode miss, the generative provider
\* only after the exact, substring and variant misses; no tier is called
\* after a hit.
C3_TiersInPriorityOrder ==
    last.kind # "none" =>
        /\ Len(last.calls) \in 1..Len(TierOrder(last.kind))
        /\ \A i \in 1..Len(last.calls) :
            /\ last.calls[i].tier = TierOrder(last.kind)[i]
            /\ (i < Len(last.calls) => ~last.calls[i].hit)

\* C3, its case: a name resolved by a variant match, the provider not called
C3_VariantHitStops ==
    /\ last.kind = "name"
    /\ Len(last.calls) = 3
    /\ last.calls[3] = Call("variant", TRUE)

\* C4: a transport or parse failure of the external call (reference DB
\* unreachable, timed out, non-success status, malformed body; provider
\* unavailable, raising, unparsable text) is a miss of that tier and nothing
\* more: the resolver does not raise and reports no error, and it answers
\* found=false with every tier tried and missed.
C4_FailureIsTierMiss ==
    last.ext \in OffFailureKinds \cup LlmFailureKinds =>
        /\ ~last.raised
        /\ ~last.error
        /\ ~last.found
        /\ last.source = (IF last.kind = "barcode" THEN "not_found" ELSE "Not Found")
        /\ Len(last.calls) = Len(TierOrder(last.kind))
        /\ \A i \in 1..Len(last.calls) : ~last.calls[i].hit

\* C4, its case: barcode lookups that ended on a malformed body, a time-out
C4_FailureSeen ==
    /\ last.kind = "barcode"
    /\ last.ext \in {"malformed", "timeout"}

StoredBarcode(fs, b) == \E i \in 1..Len(fs) : fs[i].barcode = Some(b)

\* C5: a lookup_barcode that misses locally and is answered by the external
\* reference DB returns found=true under the external label and leaves the
\* barcode in the store; every lookup_barcode of a stored barcode returns
\* found=true under the local label, calls no external DB and leaves the
\* store as it was.
C5_SecondLookupIsLocal ==
    [][(last' # last /\ last'.kind = "barcode") =>
        /\ (last'.calls = <<Call("local", FALSE), Call("external", TRUE)>> =>
                /\ last'.found
                /\ last'.source = "open_food_facts"
                /\ ~StoredBarcode(foods, last'.key)
                /\ StoredBarcode(foods', last'.key))
        /\ (StoredBarcode(foods, last'.key) =>
                /\ last'.found
                /\ last'.source = "local_database"
                /\ last'.source # "open_food_facts"
                /\ last'.calls = <<Call("local", TRUE)>>
                /\ foods' = foods
                /\ profiles' = profiles)]_vars

\* C5, its case: a barcode the write-back stored, now answered locally
C5_ServedFromWriteBack ==
    /\ last.kind = "barcode"
    /\ last.source = "local_database"
    /\ \E i \in 1..Len(foods) :
        foods[i].barcode = Some(last.key) /\ foods[i].created_by = "off_writeback"

LlmCalled(calls) == \E i \in 1..Len(calls) : calls[i].tier = "llm"

\* C6 as stated: once a name lookup missed every local match and succeeded
\* at the generative provider, a food with its NutritionRecord is in the
\* store, and every get_food_by_name of that name is served from the store:
\* no call of the provider, no further FoodRecord.
C6_LaterLookupsServedLocally ==
    (last.kind = "name" /\ last.calls = <<Call("exact", FALSE), Call("substring", FALSE),
                                          Call("variant", FALSE), Call("llm", TRUE)>>) =>
        /\ \E f \in 1..Len(foods) :
            foods[f].created_by = "llm_writeback" /\ ProfileKeys(profiles, f) # {}
        /\ \A resp \in LlmResponses :
            \A out \in GetFoodByName(foods, profiles, last.key, resp) :
                /\ out.res.found
                /\ ~LlmCalled(out.res.calls)
                /\ out.foods = foods

\* C7 as stated: in no store state does a FoodRecord created by
\* _save_llm_food_to_database exist without its NutritionRecord.
C7_FoodWithItsRecord ==
    \A f \in 1..Len(foods) :
        foods[f].created_by = "llm_writeback" => ProfileKeys(profiles, f) # {}

\* C8 as stated: the quick-access fields of a food (calories per 100g, quality
\* grade, glycemic load) equal the values of its primary NutritionRecord,
\* for each of them that record carries.
C8_QuickAccessMirrorsPrimary ==
    \A f \in 1..Len(foods) : \A k \in PrimaryKeys(profiles, f) :
        /\ foods[f].calories_per_100g =
             Some(CaloriesPer100g(profiles[k].calories, profiles[k].serving_size_grams))
        /\ (profiles[k].meta_nutri_score # None =>
                foods[f].nutri_score = profiles[k].meta_nutri_score)
        /\ (profiles[k].meta_glycemic_load # None =>
                foods[f].glycemic_load_index = profiles[k].meta_glycemic_load)

\* the stored foods an answer names: by food_id, or by barcode_id
AnsweredFoods(fs, res) ==
    {f \in 1..Len(fs) :
        \/ res.food_id = Some(f)
        \/ (res.barcode_id # None /\ fs[f].barcode = res.barcode_id)}

\* C9 as stated: when the resolved food has a primary NutritionRecord in the
\* store, get_nutrition_data gives that record's values scaled to the
\* requested serving, for a name as for a barcode.
C9_AnalysisUsesPrimary ==
    (req.pc = "resolved" /\ req.result # None) =>
        \A f \in AnsweredFoods(foods, req.result[1]) :
            \A k \in PrimaryKeys(profiles, f) :
                \A est \in EstResponses :
                    \A nd \in GetNutritionData(foods, profiles, req.result[1],
                                               req.serving, est) :
                        /\ nd.kind = "primary"
                        /\ nd.calories = Some(FormatNutritionData(profiles[k], req.serving).calories)

\* C10: every analyze request that passed validation has exactly one
\* ScanRecord; it is 'processing', never saved, while the request runs, and
\* saved exactly once, as 'completed' or 'failed', when the request has
\* ended; none is missing.
C10_ScanRecordLifecycle ==
    /\ Len(scans) = requests
    /\ \A i \in 1..Len(scans) :
        IF req.pc \in {"started", "resolved"} /\ req.scan = i
        THEN scans[i] = ScanRow("processing", 0)
        ELSE scans[i].saves = 1 /\ scans[i].status \in {"completed", "failed"}

\* C10, its case: one request ended completed, one failed
C10_BothEndings ==
    /\ req.pc = "idle"
    /\ \E i \in 1..Len(scans), j \in 1..Len(scans) :
        scans[i].status = "completed" /\ scans[j].status = "failed"

\* C11 as stated: a request without identifying input, or with a barcode whose
\* digit count is not 8, 12, 13 or 14, is rejected at once: it gets no
\* ScanRecord, no tier is queried for it, and no food is stored under such a
\* barcode.
C11_MalformedInputRejected ==
    /\ (req.pc \in {"started", "resolved"} =>
            /\ req.kind # "none"
            /\ (req.kind = "barcode" => ValidateBarcode(req.key)))
    /\ (last.kind = "barcode" => ValidateBarcode(last.key))
    /\ \A f \in 1..Len(foods) :
        foods[f].barcode # None => ValidateBarcode(foods[f].barcode[1])

\* a stored number is non-negative
NonNegative(x) == x[1] >= 0 /\ x[2] > 0

\* C12: whatever the untyped map holds, the record the sanitizer stores has
\* calories, protein, carbohydrate and fat as non-negative numbers, 0.0 for a
\* key that is absent, null, negative or not a number, and every optional
\* numeric field it stores is non-negative too.
C12_CoreMacrosPresentNonNegative ==
    (calc.op = "sanitize" /\ calc.pc = "done") =>
        \A i \in 1..Len(profiles) :
            LET p == profiles[i]
                zeroed(raw) == raw \in {None, Some(RawNull), Some(RawNeg(5, 1)), Some(RawStr)}
            IN  /\ NonNegative(p.calories) /\ NonNegative(p.protein_g)
                /\ NonNegative(p.carbohydrates_g) /\ NonNegative(p.fat_g)
                /\ (zeroed(calc.arg.calories) => p.calories = RatOfInt(0))
                /\ (zeroed(calc.arg.protein_g) => p.protein_g = RatOfInt(0))
                /\ (zeroed(calc.arg.carbohydrates_g) => p.carbohydrates_g = RatOfInt(0))
                /\ (zeroed(calc.arg.fat_g) => p.fat_g = RatOfInt(0))
                /\ (calc.arg.calories = Some(RawNum(3, 1)) => p.calories = RatOfInt(3))
                /\ (p.fiber_g # None => NonNegative(p.fiber_g[1]))
                /\ (p.sodium_mg # None => NonNegative(p.sodium_mg[1]))
                /\ NonNegative(p.confidence)

\* a record was stored from a map with a negative calories, a text for protein
\* and no fat key
C12_NegativeAndTextZeroed ==
    /\ calc.op = "sanitize" /\ calc.pc = "done"
    /\ Len(profiles) = 1
    /\ calc.arg.calories = Some(RawNeg(5, 1))
    /\ calc.arg.protein_g = Some(RawStr)
    /\ calc.arg.fat_g = None
    /\ calc.arg.fiber_g = Some(RawNeg(5, 1))
    /\ profiles[1].calories = RatOfInt(0)
    /\ profiles[1].protein_g = RatOfInt(0)
    /\ profiles[1].fat_g = RatOfInt(0)
    /\ profiles[1].fiber_g = Some(RatOfInt(0))

\* C13: for every confidence value of the input map (absent, below 0.1, above
\* 0.8, or not a number) the sanitizer stores a record, and the confidence of
\* that record lies in [0.1, 0.8], 1.5 becoming 0.8.
C13_ConfidencePersistedClamped ==
    (calc.op = "sanitize" /\ calc.pc = "done") =>
        /\ ~calc.out.exc
        /\ Len(profiles) = 1
        /\ ~RatLess(profiles[1].confidence, Rat(1, 10))
        /\ ~RatLess(Rat(8, 10), profiles[1].confidence)
        /\ (calc.arg.confidence = Some(RawNum(3, 2)) => profiles[1].confidence = Rat(8, 10))

\* the phrases of the conversion table a serving description contains
TableHits(text) ==
    {k \in 1..Len(Conversions) : Contains(Strip(Lower(text)), Conversions[k].size)}

\* C19: _parse_serving_size gives the grams of a table phrase the description
\* contains; only without such a phrase the explicit gram quantity; and 100.0
\* when there is neither.
C19_TablePhraseBeforeGrams ==
    (calc.op = "parse" /\ calc.pc = "done") =>
        LET s == Strip(Lower(calc.arg.text))
            digits == FilterDigits(BeforeFirst(s, "g"))
        IN  IF TableHits(calc.arg.text) # {}
            THEN \E k \in TableHits(calc.arg.text) : calc.out = RatOfInt(Conversions[k].grams)
            ELSE IF Contains(s, <<"g">>) /\ digits # <<>>
            THEN calc.out = RatOfInt(DigitsToNat(digits))
            ELSE calc.out = RatOfInt(100)

\* serving_grams / serving_size_grams of a format call
RequestedRatio ==
    RatMul(ParseServingSize(calc.arg.text), Rat(1, calc.arg.profile.serving_size_grams))

\* C20: _format_nutrition_data gives every nutrient of the stored record times
\* requested grams / stored serving grams, and an optional nutrient that is
\* null in the stored record is null in the result.
C20_EveryNutrientScaled ==
    (calc.op = "format" /\ calc.pc = "done") =>
        LET p == calc.arg.profile
            scaled(opt) == IF opt = None THEN None ELSE Some(RatMul(opt[1], RequestedRatio))
        IN  /\ calc.out.calories = RatMul(p.calories, RequestedRatio)
            /\ calc.out.protein_g = RatMul(p.protein_g, RequestedRatio)
            /\ calc.out.carbohydrates_g = RatMul(p.carbohydrates_g, RequestedRatio)
            /\ calc.out.fat_g = RatMul(p.fat_g, RequestedRatio)
            /\ calc.out.fiber_g = scaled(p.fiber_g)
            /\ calc.out.sodium_mg = scaled(p.sodium_mg)

\* C14: with an empty condition list analyze_for_conditions answers overall
\* score 7.0, no remark and no per-condition score, whatever the nutrition
\* record holds; the fiber and sodium adjustments are not applied.
C14_EmptyListIsNeutral ==
    (calc.op = "analyze" /\ calc.pc = "done" /\ calc.arg.health_conditions = <<>>) =>
        /\ ~calc.out.failed
        /\ calc.out.overall_score = RatOfInt(7)
        /\ calc.out.remarks = <<>>
        /\ calc.out.condition_scores = <<>>

\* an empty list was analysed for a record with sodium 4000 and fiber 9, both
\* beyond the thresholds of the global adjustments
C14_EmptyListExtremeRecord ==
    /\ calc.op = "analyze" /\ calc.pc = "done"
    /\ calc.arg.health_conditions = <<>>
    /\ KeySodium \in DOMAIN calc.arg.nutrition_data
    /\ KeyFiber \in DOMAIN calc.arg.nutrition_data
    /\ calc.arg.nutrition_data[KeySodium] = RawNum(4000, 1)
    /\ calc.arg.nutrition_data[KeyFiber] = RawNum(9, 1)
    /\ calc.out.overall_score = RatOfInt(7)

\* evaluating the rule for the record raises: a max_ or min_ entry meets a
\* value that is no number (TypeError), or a max_ entry with the limit 0 meets
\* a positive value (ZeroDivisionError in the ratio)
Raises(nutritionData, condition) ==
    \E i \in 1..Len(condition.dietary_restrictions) :
        LET e == condition.dietary_restrictions[i]
            x == SubSeq(e.key, 5, Len(e.key))
        IN  /\ SubSeq(e.key, 1, 4) \in {<<"m","a","x","_">>, <<"m","i","n","_">>}
            /\ x \in DOMAIN nutritionData
            /\ nutritionData[x].t # "null"
            /\ \/ nutritionData[x].t # "num"
               \/ e.limit.t # "num"
               \/ /\ SubSeq(e.key, 1, 4) = <<"m","a","x","_">>
                  /\ e.limit.v[1] = 0
                  /\ nutritionData[x].v[1] > 0

\* the entries of a rule that are violated: max_X with the record's X above
\* the limit, min_X with the record's X below it
RuleViolations(nutritionData, condition) ==
    {i \in 1..Len(condition.dietary_restrictions) :
        LET e == condition.dietary_restrictions[i]
            x == SubSeq(e.key, 5, Len(e.key))
        IN  /\ x \in DOMAIN nutritionData
            /\ nutritionData[x].t = "num"
            /\ e.limit.t = "num"
            /\ \/ SubSeq(e.key, 1, 4) = <<"m","a","x","_">>
                  /\ nutritionData[x].v[1] * e.limit.v[2] > e.limit.v[1] * nutritionData[x].v[2]
               \/ SubSeq(e.key, 1, 4) = <<"m","i","n","_">>
                  /\ nutritionData[x].v[1] * e.limit.v[2] < e.limit.v[1] * nutritionData[x].v[2]}

\* severity by the ratio value / limit, written without the division:
\* max: > 2.0 danger, > 1.5 warning; min: < 0.5 danger, < 0.75 warning; else info
RuleSeverity(nutritionData, e) ==
    LET x == nutritionData[SubSeq(e.key, 5, Len(e.key))].v
        vn == x[1] * e.limit.v[2]
        ln == e.limit.v[1] * x[2]
    IN  IF SubSeq(e.key, 1, 4) = <<"m","a","x","_">>
        THEN (IF vn > 2 * ln THEN "danger" ELSE IF 2 * vn > 3 * ln THEN "warning" ELSE "info")
        ELSE (IF 2 * vn < ln THEN "danger" ELSE IF 4 * vn < 3 * ln THEN "warning" ELSE "info")

\* twice the penalty: danger 3.0, warning 1.5, info 0.5
RulePenaltyHalves(severity) ==
    IF severity = "danger" THEN 6 ELSE IF severity = "warning" THEN 3 ELSE 1

RECURSIVE RulePenaltySum(_, _, _)
RulePenaltySum(nutritionData, condition, i) ==
    IF i = 0 THEN 0
    ELSE RulePenaltySum(nutritionData, condition, i - 1)
         + (IF i \in RuleViolations(nutritionData, condition)
            THEN RulePenaltyHalves(RuleSeverity(nutritionData, condition.dietary_restrictions[i]))
            ELSE 0)

\* C15: when the evaluation of a condition completes, its score is 7.0 minus
\* the penalties (3.0 danger, 1.5 warning, 0.5 info) of the violated entries,
\* clamped to [0, 10], and every violated entry has exactly one remark, which
\* carries the severity of its ratio; sodium 4000 against max 1500 is a danger
\* and scores 4.0.
C15_ScoreIsSevenMinusPenalties ==
    (/\ calc.op = "condition" /\ calc.pc = "done"
     /\ ~Raises(calc.arg.nutrition_data, calc.arg.condition)) =>
        LET nd == calc.arg.nutrition_data
            c == calc.arg.condition
            halves == 14 - RulePenaltySum(nd, c, Len(c.dietary_restrictions))
            found == {r \in 1..Len(calc.out.remarks) : calc.out.remarks[r].kind \in {"max", "min"}}
        IN  /\ calc.out.score = (IF halves < 0 THEN RatOfInt(0) ELSE RatSigned(halves, 2))
            /\ \A i \in RuleViolations(nd, c) :
                  \E r \in found :
                     /\ calc.out.remarks[r].entry = c.dietary_restrictions[i].key
                     /\ calc.out.remarks[r].severity = RuleSeverity(nd, c.dietary_restrictions[i])
                     /\ calc.out.remarks[r].condition = c.name
                     /\ \A q \in found :
                           calc.out.remarks[q].entry = c.dietary_restrictions[i].key => q = r
            /\ Cardinality(found) = Cardinality(RuleViolations(nd, c))
            /\ (c.name = NameHypertension /\ DictGet(nd, KeySodium) = RawNum(4000, 1)
                  => /\ calc.out.score = RatOfInt(4)
                     /\ calc.out.remarks[1].severity = "danger")

\* a rule with three violated entries was evaluated: fiber 3 against min 8 (a
\* danger), sodium 4000 against max 2300 (a warning), trans fat 1 against max
\* 0.4 (a danger); the score 7.0 - 7.5 is clamped to 0
C15_ThreeViolationsClamped ==
    /\ calc.op = "condition" /\ calc.pc = "done" /\ ~calc.out.fallback
    /\ calc.arg.condition.name = NameDiabetes
    /\ DictGet(calc.arg.nutrition_data, KeyFiber) = RawNum(3, 1)
    /\ DictGet(calc.arg.nutrition_data, KeySodium) = RawNum(4000, 1)
    /\ DictGet(calc.arg.nutrition_data, KeyTransFat) = RawNum(1, 1)
    /\ Len(calc.out.remarks) = 3
    /\ calc.out.remarks[1].severity = "danger"
    /\ calc.out.remarks[2].severity = "warning"
    /\ calc.out.score = RatOfInt(0)

\* some requested name has a rule in the store
SomeKnown(names) ==
    \E i \in 1..Len(names) : HealthConditionKeys(HealthConditions, names[i]) # {}

\* a nutrient of the record is a number above the threshold; a null or absent
\* nutrient is not
Above(nutritionData, key, threshold) ==
    /\ key \in DOMAIN nutritionData
    /\ nutritionData[key].t = "num"
    /\ nutritionData[key].v[1] > threshold * nutritionData[key].v[2]

\* C16: with at least one known condition the aggregate score is the mean of
\* the per-condition scores, plus 0.5 if fiber > 5, minus 0.5 if sodium > 2300,
\* clamped to [0, 10], also for a record whose fiber or sodium is null or
\* absent, and the per-condition scores are returned with it.
C16_AggregateIsAdjustedMean ==
    (/\ calc.op = "analyze" /\ calc.pc = "done"
     /\ SomeKnown(calc.arg.health_conditions)
     /\ \A k \in DOMAIN calc.arg.nutrition_data : calc.arg.nutrition_data[k].t # "str") =>
        LET nd == calc.arg.nutrition_data
            scores == calc.out.condition_scores
            mean == RatDiv(SumValues(scores), RatOfInt(Len(scores)))
            bonus == IF Above(nd, KeyFiber, 5) THEN RatAdd(mean, Rat(1, 2)) ELSE mean
            total == IF Above(nd, KeySodium, 2300) THEN RatSub(bonus, Rat(1, 2)) ELSE bonus
        IN  /\ scores # <<>>
            /\ calc.out.overall_score = Clamp(RatOfInt(0), RatOfInt(10), total)

\* the rule a requested name resolves to on a fresh service instance
RuleOf(name) == GetHealthCondition(<<>>, HealthConditions, name).condition

\* the requested names whose rule cannot be evaluated for this record
FailingNames(nutritionData, names) ==
    {names[i] : i \in {j \in 1..Len(names) :
        /\ RuleOf(names[j]) # None
        /\ Raises(nutritionData, RuleOf(names[j])[1])}}

\* the list without the names that resolve to the rule of n
WithoutRule(names, n) ==
    LET Keep(x) == RuleOf(x) # RuleOf(n) IN SelectSeq(names, Keep)

\* the remarks about the rules other than that of n
RemarksOfOthers(remarks, n) ==
    LET Keep(r) == r.kind # "system" /\ r.condition # RuleOf(n)[1].name
    IN  SelectSeq(remarks, Keep)

ScoresOfOthers(scores, n) ==
    LET Keep(s) == RuleOf(s.key) # RuleOf(n) IN SelectSeq(scores, Keep)

\* C17: a condition whose evaluation raises gets one "unable to analyze"
\* remark and the score 5.0, and nothing else; the remarks and scores of the
\* other conditions of the call are those of the call without that condition.
C17_FailureIsolatedPerCondition ==
    /\ (/\ calc.op = "condition" /\ calc.pc = "done"
        /\ Raises(calc.arg.nutrition_data, calc.arg.condition)) =>
          /\ Len(calc.out.remarks) = 1
          /\ calc.out.remarks[1].kind = "unable"
          /\ calc.out.remarks[1].condition = calc.arg.condition.name
          /\ calc.out.score = RatOfInt(5)
    /\ (calc.op = "analyze" /\ calc.pc = "done") =>
          \A n \in FailingNames(calc.arg.nutrition_data, calc.arg.health_conditions) :
             LET rest == AnalyzeForConditions(<<>>, HealthConditions, calc.arg.nutrition_data,
                                              WithoutRule(calc.arg.health_conditions, n))
                 Own(r) == r.condition = RuleOf(n)[1].name
             IN  /\ RemarksOfOthers(calc.out.remarks, n) = RemarksOfOthers(rest.remarks, n)
                 /\ ScoresOfOthers(calc.out.condition_scores, n) = rest.condition_scores
                 /\ ~calc.out.failed =>
                       /\ \A r \in 1..Len(calc.out.remarks) :
                             Own(calc.out.remarks[r]) => calc.out.remarks[r].kind = "unable"
                       /\ \A s \in 1..Len(calc.out.condition_scores) :
                             RuleOf(calc.out.condition_scores[s].key) = RuleOf(n)
                                => calc.out.condition_scores[s].value = RatOfInt(5)
                       /\ Len(SelectSeq(calc.out.remarks, Own))
                             = Len(calc.arg.health_conditions)
                               - Len(WithoutRule(calc.arg.health_conditions, n))

\* Heart Disease could not be evaluated (trans fat 1 against the limit 0) and
\* Hypertension, asked for in the same call, has its danger remark and its 4.0
C17_OneFailsOtherScored ==
    /\ calc.op = "analyze" /\ calc.pc = "done" /\ ~calc.out.failed
    /\ calc.arg.health_conditions = <<<<"h","e","a","r","t">>, NameHypertension>>
    /\ DictGet(calc.arg.nutrition_data, KeyTransFat) = RawNum(1, 1)
    /\ DictGet(calc.arg.nutrition_data, KeySodium) = RawNum(4000, 1)
    /\ Len(calc.out.remarks) = 2
    /\ calc.out.remarks[1].kind = "unable"
    /\ calc.out.remarks[2].severity = "danger"
    /\ calc.out.condition_scores[1].value = RatOfInt(5)
    /\ calc.out.condition_scores[2].value = RatOfInt(4)

\* the requested names that have a rule in the store, in the order requested
KnownNames(names) ==
    LET Keep(n) == HealthConditionKeys(HealthConditions, n) # {} IN SelectSeq(names, Keep)

\* C18: a requested name that matches no stored rule is skipped without
\* error: no remark and no score is answered for it, and remarks, scores and
\* aggregate are those of the call with the known names only; the aggregate
\* is 7.0 when no requested name is known.
C18_UnknownNamesSkipped ==
    (calc.op = "analyze" /\ calc.pc = "done") =>
        LET names == calc.arg.health_conditions
            known == AnalyzeForConditions(<<>>, HealthConditions, calc.arg.nutrition_data,
                                          KnownNames(names))
        IN  /\ calc.out.remarks = known.remarks
            /\ calc.out.condition_scores = known.condition_scores
            /\ calc.out.overall_score = known.overall_score
            /\ \A s \in 1..Len(calc.out.condition_scores) :
                  HealthConditionKeys(HealthConditions, calc.out.condition_scores[s].key) # {}
            /\ (KnownNames(names) = <<>> =>
                  /\ ~calc.out.failed
                  /\ calc.out.remarks = <<>>
                  /\ calc.out.condition_scores = <<>>
                  /\ calc.out.overall_score = RatOfInt(7))

\* an unknown name was requested together with Hypertension for a record with
\* sodium 4000: one danger remark, one score, aggregate 4.0 - 0.5
C18_UnknownBesideKnown ==
    /\ calc.op = "analyze" /\ calc.pc = "done" /\ ~calc.out.failed
    /\ calc.arg.health_conditions = <<<<"G","o","u","t">>, NameHypertension>>
    /\ DictGet(calc.arg.nutrition_data, KeySodium) = RawNum(4000, 1)
    /\ Len(calc.out.remarks) = 1
    /\ Len(calc.out.condition_scores) = 1
    /\ calc.out.condition_scores[1].key = NameHypertension
    /\ calc.out.overall_score = Rat(7, 2)

\* the four core macros of a record or of a formatted result
CoreMacros(r) ==
    <<r.calories, r.protein_g, r.carbohydrates_g, r.fat_g>>

DistinctFoodNames(fs) ==
    \A i, j \in 1..Len(fs) : i # j => fs[i].name # fs[j].name

\* C22: for a fixed store (of foods with distinct names) and a fixed name,
\* _find_food_in_database has one possible answer: the same food, found at the
\* same tier, on every run.
C22_ResolutionDeterministic ==
    DistinctFoodNames(foods) =>
        \A n \in ReqNames :
            \A r1, r2 \in FindFoodInDatabase(foods, n) : r1 = r2

\* the entries of the evaluated rule a violation remark was written for
RemarkedEntries(remarks) ==
    {remarks[k].entry : k \in {j \in 1..Len(remarks) : remarks[j].kind # "suitable"}}

\* C23: for every entry max_<nutrient> or min_<nutrient> of a rule the value
\* compared with the limit is the record's value of <nutrient>, the key
\* without its leading qualifier: a violation remark is written for exactly
\* the entries whose <nutrient> is above a max limit or below a min limit.
C23_MatchingNutrientCompared ==
    (calc.op = "rule" /\ calc.pc = "done") =>
        LET c == calc.arg.condition
        IN  RemarkedEntries(calc.out.remarks) =
                {c.dietary_restrictions[i].key :
                    i \in RuleViolations(calc.arg.nutrition_data, c)}

\* the destinations the sanitizer wrote a key of the map to; 'confidence'
\* becomes confidence_score, 'food_name' and 'description' are read by the
\* caller for the Food row
RoutedKeys(p) ==
    p.columns \cup p.vitamins_minerals \cup p.source_metadata
    \cup {"confidence", "food_name", "description"}

\* C24 (as stated): _create_sanitized_nutrition_profile routes every key of
\* the input map to a destination and drops none.
C24_EveryKeyRouted ==
    (calc.op = "sanitize" /\ calc.pc = "done" /\ ~calc.out.exc) =>
        PresentKeys(calc.arg) \subseteq RoutedKeys(profiles[1])

\* C24 (as amended): the sanitizer routes every key that one of its three
\* field tables names: core macros and named nutrients to record columns,
\* the twelve listed micronutrients to the micronutrient map, and quality
\* grade, glycemic figures, allergen list, food type and category to the
\* provenance-metadata map; a key that no table names is dropped.
C24_TableKeysRouted ==
    (calc.op = "sanitize" /\ calc.pc = "done" /\ ~calc.out.exc) =>
        LET keys == PresentKeys(calc.arg)
            p == profiles[1]
        IN  /\ \A k \in keys \cap {"calories", "protein_g", "carbohydrates_g", "fat_g",
                                   "fiber_g", "sodium_mg", "sugar_g"} : k \in p.columns
            /\ \A k \in keys \cap {"potassium_mg", "vitamin_c_mg"} :
                  k \in p.vitamins_minerals /\ k \notin p.columns
            /\ \A k \in keys \cap {"nutri_score", "glycemic_load", "allergens", "category"} :
                  k \in p.source_metadata /\ k \notin p.vitamins_minerals
            /\ \A k \in keys \cap {"vitamin_b12_mcg", "ingredients"} :
                  k \notin p.columns \cup p.vitamins_minerals \cup p.source_metadata

\* a map with a listed micronutrient, an allergen list and a quality grade,
\* and a numeric nutrient no table names, was sanitized
C24_ListedRoutedUnlistedDropped ==
    /\ calc.op = "sanitize" /\ calc.pc = "done" /\ ~calc.out.exc
    /\ {"potassium_mg", "allergens", "vitamin_b12_mcg"} \subseteq calc.arg.others
    /\ calc.arg.nutri_score # None
    /\ "potassium_mg" \in profiles[1].vitamins_minerals
    /\ {"allergens", "nutri_score"} \subseteq profiles[1].source_metadata
    /\ "vitamin_b12_mcg" \notin RoutedKeys(profiles[1])

\* the edit count at which instance i first found the name
FirstEdits(i, name) ==
    (CHOOSE f \in calc.arg.first : f.instance = i /\ f.name = name).edits

\* C25: the rule an instance evaluates for a name is the stored rule as it
\* was when that same instance first found the name: a fresh instance
\* evaluates the rule as edited, an instance that had cached the name keeps
\* the rule as cached, and no instance evaluates what another one cached.
C25_CacheBelongsToInstance ==
    (calc.op = "cache" /\ calc.out # <<>> /\ calc.out.condition # None) =>
        LET e == calc.out
            limit == 1500 + 500 * FirstEdits(e.instance, e.name)
        IN  /\ e.condition[1].name = NameHypertension
            /\ e.condition[1].dietary_restrictions[1].limit = RawNum(limit, 1)
            /\ e.score = Some(IF limit < 1800 THEN Rat(13, 2) ELSE RatOfInt(7))

\* after an edit the first instance, which had cached the name, evaluated the
\* rule of before (limit 1500) while the second instance holds the edited one
C25_StaleBesideFresh ==
    /\ calc.op = "cache"
    /\ calc.arg.edits = 1
    /\ calc.out # <<>>
    /\ calc.out.instance = 1
    /\ calc.out.name = NameHypertension
    /\ calc.out.condition # None
    /\ calc.out.condition[1].dietary_restrictions[1].limit = RawNum(1500, 1)
    /\ Len(calc.arg.caches) = 2
    /\ NameHypertension \in DOMAIN calc.arg.caches[2]
    /\ calc.arg.caches[2][NameHypertension].dietary_restrictions[1].limit = RawNum(2000, 1)

\* the max_ entries of a rule with the limit 0 whose nutrient is positive in
\* the record
ZeroLimitEntries(nutritionData, condition) ==
    {i \in 1..Len(condition.dietary_restrictions) :
        LET e == condition.dietary_restrictions[i]
            x == SubSeq(e.key, 5, Len(e.key))
        IN  /\ SubSeq(e.key, 1, 4) = <<"m","a","x","_">>
            /\ e.limit.t = "num" /\ e.limit.v[1] = 0
            /\ x \in DOMAIN nutritionData
            /\ nutritionData[x].t = "num" /\ nutritionData[x].v[1] > 0}

\* C26: when a rule has an entry max_<nutrient> with the limit 0 and the
\* record's nutrient is positive (all values of the record being numbers),
\* _analyze_single_condition writes one violation remark for that entry and
\* one for every other violated entry, and the score is 7.0 minus their
\* penalties (at least the 0.5 of each), not the fallback 5.0 with its single
\* "unable to analyze" remark.
C26_ZeroLimitIsViolation ==
    (calc.op = "condition" /\ calc.pc = "done"
        /\ ZeroLimitEntries(calc.arg.nutrition_data, calc.arg.condition) # {}
        /\ \A k \in DOMAIN calc.arg.nutrition_data : calc.arg.nutrition_data[k].t # "str") =>
        LET c == calc.arg.condition
            violated == RuleViolations(calc.arg.nutrition_data, c)
        IN  /\ RemarkedEntries(calc.out.remarks) =
                  {c.dietary_restrictions[i].key : i \in violated}
            /\ Len(calc.out.remarks) = Cardinality(violated)
            /\ ~RatLess(Rat(13, 2), calc.out.score)

\* C27: an optional nutrient (fiber, sodium) stored as 0 in the record is 0
\* in the result of _format_nutrition_data, for every requested serving; it
\* is not null.
C27_StoredZeroStaysZero ==
    (calc.op = "format" /\ calc.pc = "done") =>
        /\ calc.arg.profile.fiber_g = Some(RatOfInt(0)) =>
              calc.out.fiber_g = Some(RatOfInt(0))
        /\ calc.arg.profile.sodium_mg = Some(RatOfInt(0)) =>
              calc.out.sodium_mg = Some(RatOfInt(0))

\* both lookup_barcode calls have returned, the barcode having been absent
\* from the store at the start and every call made to Open Food Facts having
\* been answered with the product
BothLookupsDone ==
    /\ \A p \in Procs : savers[p].pc = "done"
    /\ \A p \in Procs : savers[p].resp # None => savers[p].resp[1].kind = "product"

WriteBackIds(fs) == {i \in 1..Len(fs) : fs[i].created_by = "llm_writeback"}

\* C29: after two concurrent get_food_by_name calls for one name, absent
\* locally and estimated by the provider (under the requested name) for every
\* call that asked it, the store holds at most one Food row created for that
\* name.
C29_AtMostOneFoodForName ==
    (/\ \A p \in Procs : savers[p].pc = "done"
     /\ \A p \in Procs : savers[p].res[1].found
     /\ \A p \in Procs : savers[p].resp # None => savers[p].resp[1].food_name = None) =>
        Cardinality(WriteBackIds(foods)) <= 1

\* C30: when the store holds a condition whose name equals the requested name
\* but for the case of its letters, _get_health_condition returns that
\* condition, whatever other stored names contain the requested name.
C30_ExactNameWins ==
    (calc.op = "lookup" /\ calc.pc = "done") =>
        \A i \in 1..Len(calc.arg.store) :
            Lower(calc.arg.store[i].name) = Lower(calc.arg.name) =>
                calc.out.condition = Some(calc.arg.store[i])

====
